---- MODULE Spec2Model ----
(***************************************************************************)
(* LRZ (low-resolution Z) state tracking of the turnip Vulkan driver:      *)
(* src/freedreno/vulkan/tu_lrz.c.                                          *)
(*                                                                         *)
(* The state is the per-command-buffer tracker cmd->state.lrz, the device  *)
(* capabilities and debug flags it reads, and the commands the last        *)
(* operation wrote to the command streams.  One action per entry point of  *)
(* tu_lrz.c.                                                               *)
(***************************************************************************)
EXTENDS Integers, Sequences, FiniteSets, TLC

VARIABLES
    device,       \* physical-device info and instance debug flags (read-only)
    pass,         \* cmd->state.pass != NULL
    attachments,  \* cmd->state.attachments != NULL
    lrz,          \* cmd->state.lrz
    cntl,         \* GRAS_LRZ_CNTL value returned by the last tu6_calculate_lrz_state
    cs,           \* commands emitted by the last operation, in order
    op,           \* the last operation and its arguments
    pre,          \* cmd->state.lrz as the last operation found it
    dirty,        \* cmd->state.dirty & TU_CMD_DIRTY_LRZ
    depth,        \* operations run so far (counted by SpecDraw, SpecSeq,
                  \* SpecPass and SpecOut)
    twin,         \* cmd->state.lrz of a second recording of the same commands:
                  \* on the device with the other has_lrz_dir_tracking in
                  \* SpecTwin, begun by tu_lrz_begin_resumed_renderpass in SpecPass
    lrz_writes,   \* the .dir of the GRAS_LRZ_CNTL values of this pass that had
                  \* lrz_write set and left the tracker valid
    trail         \* the draws of the pass, oldest first, each with the tracker
                  \* it left (recorded by SpecSeq, and by SpecPass after the
                  \* begin operation of the pass)

vars ==
    <<device, pass, attachments, lrz, cntl, cs, op, pre, dirty, depth, twin,
      lrz_writes, trail>>

-----------------------------------------------------------------------------
(* Bounds of the model *)

\* pass->attachment_count ranges over 0..MaxAttachments
MaxAttachments == 2
\* pass->subpass_count ranges over 1..MaxSubpasses
MaxSubpasses == 2
\* subpass->color_count and pipeline->blend.num_rts range over 0..MaxColorCount
MaxColorCount == 1
\* rangeCount of tu_lrz_clear_depth_image ranges over 0..MaxRanges
MaxRanges == 2
\* SpecSeq records passes of up to MaxTrail draws
MaxTrail == 3

-----------------------------------------------------------------------------
(* Values *)

\* VkCompareOp
CompareOps ==
    {"NEVER", "LESS", "EQUAL", "LESS_OR_EQUAL",
     "GREATER", "NOT_EQUAL", "GREATER_OR_EQUAL", "ALWAYS"}

\* enum tu_lrz_direction; TU_LRZ_UNKNOWN is the value a zeroed tracker holds
Directions == {"TU_LRZ_UNKNOWN", "TU_LRZ_LESS", "TU_LRZ_GREATER"}

\* VkClearDepthStencilValue.depth: the floats the model clears depth to
DepthValues == {"0.0", "0.5", "1.0"}

\* struct tu_image, the fields tu_lrz.c reads.  An image without an LRZ buffer
\* has no fast-clear buffer either.
NoLrzImage == [lrz_height |-> 0, lrz_fc_size |-> 0, lrz_fc_offset |-> 0]
LrzImage   == [lrz_height |-> 1, lrz_fc_size |-> 0, lrz_fc_offset |-> 0]
LrzFcImage == [lrz_height |-> 1, lrz_fc_size |-> 1, lrz_fc_offset |-> 1]
Images == {NoLrzImage, LrzImage, LrzFcImage}

\* a NULL struct tu_image_view * / struct tu_image *
NULL == [null |-> TRUE]

\* struct tu_image_view
ImageView(image) == [image |-> image]

\* struct tu_lrz_state after memset(&cmd->state.lrz, 0, sizeof(cmd->state.lrz))
ZeroLrz ==
    [valid                |-> FALSE,
     prev_direction       |-> "TU_LRZ_UNKNOWN",
     gpu_dir_tracking     |-> FALSE,
     fast_clear           |-> FALSE,
     reuse_previous_state |-> FALSE,
     image_view           |-> NULL,
     depth_clear_value    |-> "0.0",
     enabled              |-> FALSE]

\* struct A6XX_GRAS_LRZ_CNTL gras_lrz_cntl = { 0 }
ZeroCntl ==
    [enable               |-> FALSE,
     lrz_write            |-> FALSE,
     greater              |-> FALSE,
     fc_enable            |-> FALSE,
     z_test_enable        |-> FALSE,
     z_bounds_enable      |-> FALSE,
     dir                  |-> "NONE",
     dir_write            |-> FALSE,
     disable_on_wrong_dir |-> FALSE]

-----------------------------------------------------------------------------
(* Command-stream primitives.  A command carries the stream it is written  *)
(* to: "cmd_cs" for &cmd->cs, "cs" for the stream passed as argument.      *)

tu6_emit_lrz_buffer(stream, depth_image) ==
    IF depth_image = NULL
    THEN <<[cmd |-> "GRAS_LRZ_BUFFER_BASE", stream |-> stream,
            image |-> NULL, fc_base |-> FALSE]>>
    ELSE <<[cmd |-> "GRAS_LRZ_BUFFER_BASE", stream |-> stream,
            image |-> depth_image, fc_base |-> depth_image.lrz_fc_offset # 0]>>

tu6_write_lrz_reg(dev, stream, reg, value) ==
    <<[cmd |-> IF dev.lrz_track_quirk THEN "CP_REG_WRITE" ELSE "PKT4",
       stream |-> stream, reg |-> reg, value |-> value]>>

tu6_emit_event_write(stream, event) ==
    <<[cmd |-> "EVENT_WRITE", stream |-> stream, event |-> event]>>

tu6_clear_lrz(stream, image, value) ==
    <<[cmd |-> "tu6_clear_lrz", stream |-> stream, image |-> image, value |-> value]>>

tu6_dirty_lrz_fc(stream, image) ==
    <<[cmd |-> "tu6_dirty_lrz_fc", stream |-> stream, image |-> image]>>

\* A6XX_GRAS_LRZ_DEPTH_VIEW values: all ones in base_layer, layer_count and
\* base_mip_level; .dword = 0; the view's own GRAS_LRZ_DEPTH_VIEW
InvalidDepthView == [view |-> "INVALID"]
ZeroDepthView == [view |-> "ZERO"]
DepthViewOf(image_view) == [view |-> "IMAGE", image |-> image_view.image]

\* Faulty variant of tu6_disable_lrz_via_depth_view: the LRZ_CLEAR is not
\* flushed.
tu6_disable_lrz_via_depth_view_without_flush(dev, stream) ==
    tu6_write_lrz_reg(dev, stream, "GRAS_LRZ_DEPTH_VIEW", InvalidDepthView)
    \o tu6_write_lrz_reg(dev, stream, "GRAS_LRZ_CNTL",
          [ZeroCntl EXCEPT !.enable = TRUE, !.disable_on_wrong_dir = TRUE])
    \o tu6_emit_event_write(stream, "LRZ_CLEAR")

tu6_disable_lrz_via_depth_view(dev, stream) ==
    tu6_write_lrz_reg(dev, stream, "GRAS_LRZ_DEPTH_VIEW", InvalidDepthView)
    \o tu6_write_lrz_reg(dev, stream, "GRAS_LRZ_CNTL",
          [ZeroCntl EXCEPT !.enable = TRUE, !.disable_on_wrong_dir = TRUE])
    \o tu6_emit_event_write(stream, "LRZ_CLEAR")
    \o tu6_emit_event_write(stream, "LRZ_FLUSH")

\* Faulty variant of tu_disable_lrz: the buffer base is not written.
tu_disable_lrz_without_buffer(dev, stream, image) ==
    IF ~dev.has_lrz_dir_tracking THEN <<>>
    ELSE IF image.lrz_height = 0 THEN <<>>
    ELSE tu6_disable_lrz_via_depth_view(dev, stream)

tu_disable_lrz(dev, stream, image) ==
    IF ~dev.has_lrz_dir_tracking THEN <<>>
    ELSE IF image.lrz_height = 0 THEN <<>>
    ELSE tu6_emit_lrz_buffer(stream, image)
         \o tu6_disable_lrz_via_depth_view(dev, stream)

\* Faulty variant of FirstDepthRange: the first range is taken whatever its
\* aspect.
FirstDepthRange_any_aspect(ranges, i) == i

\* the loop of tu_lrz_clear_depth_image: the first range with the depth or
\* color aspect, or rangeCount when there is none.  ranges[i] tells whether
\* pRanges[i].aspectMask has one of these aspects.
RECURSIVE FirstDepthRange(_, _)
FirstDepthRange(ranges, i) ==
    IF i > Len(ranges) THEN i
    ELSE IF ranges[i] THEN i
    ELSE FirstDepthRange(ranges, i + 1)

\* A6XX_GRAS_LRZ_DEPTH_VIEW of the subresource range pRanges[range]
RangeDepthView(range) == [view |-> "RANGE", range |-> range]

\* tu_lrz_clear_depth_image: the commands it writes
tu_lrz_clear_depth_image(dev, image, clear, ranges) ==
    IF Len(ranges) = 0 \/ image.lrz_height = 0 \/ ~dev.has_lrz_dir_tracking
    THEN <<>>
    ELSE
      LET range == FirstDepthRange(ranges, 1)
          fast_clear == image.lrz_fc_size # 0 /\ (clear = "0.0" \/ clear = "1.0")
      IN  IF range > Len(ranges) THEN <<>>
          ELSE tu6_emit_lrz_buffer("cmd_cs", image)
               \o tu6_write_lrz_reg(dev, "cmd_cs", "GRAS_LRZ_DEPTH_VIEW",
                                     RangeDepthView(range))
               \o tu6_write_lrz_reg(dev, "cmd_cs", "GRAS_LRZ_CNTL",
                     [ZeroCntl EXCEPT
                        !.enable = TRUE,
                        !.fc_enable = fast_clear,
                        !.disable_on_wrong_dir = TRUE])
               \o tu6_emit_event_write("cmd_cs", "LRZ_CLEAR")
               \o tu6_emit_event_write("cmd_cs", "LRZ_FLUSH")
               \o (IF ~fast_clear
                   THEN tu6_clear_lrz("cmd_cs", image, clear) ELSE <<>>)

-----------------------------------------------------------------------------
(* Tracker initialisation *)

\* Faulty variant of tu_lrz_init_state: without the return of lines 201-202, a
\* loaded attachment is reused on a device without direction tracking.
tu_lrz_init_state_without_tracking_return(l, dev, att, view) ==
    IF view.image.lrz_height = 0 THEN l
    ELSE
      LET l1 == [l EXCEPT !.image_view = view]
      IN  IF ~att.clear_mask /\ ~att.load THEN l1
          ELSE [l1 EXCEPT
                  !.valid = TRUE,
                  !.prev_direction = "TU_LRZ_UNKNOWN",
                  !.fast_clear = view.image.lrz_fc_size > 0,
                  !.gpu_dir_tracking = dev.has_lrz_dir_tracking,
                  !.reuse_previous_state = ~att.clear_mask]

\* Faulty variant of tu_lrz_init_state: it validates the tracker whatever the
\* load op of the attachment.
tu_lrz_init_state_ignores_load(l, dev, att, view) ==
    IF view.image.lrz_height = 0 THEN l
    ELSE IF ~dev.has_lrz_dir_tracking /\ ~att.clear_mask THEN l
    ELSE [l EXCEPT
            !.image_view = view,
            !.valid = TRUE,
            !.prev_direction = "TU_LRZ_UNKNOWN",
            !.fast_clear = view.image.lrz_fc_size > 0,
            !.gpu_dir_tracking = dev.has_lrz_dir_tracking,
            !.reuse_previous_state = ~att.clear_mask]

\* Faulty variant of tu_lrz_init_state: it validates the tracker and leaves
\* image_view as it was.
tu_lrz_init_state_without_view(l, dev, att, view) ==
    IF view.image.lrz_height = 0 THEN l
    ELSE IF ~dev.has_lrz_dir_tracking /\ ~att.clear_mask THEN l
    ELSE IF ~att.clear_mask /\ ~att.load THEN l
    ELSE [l EXCEPT
            !.valid = TRUE,
            !.prev_direction = "TU_LRZ_UNKNOWN",
            !.fast_clear = view.image.lrz_fc_size > 0,
            !.gpu_dir_tracking = dev.has_lrz_dir_tracking,
            !.reuse_previous_state = ~att.clear_mask]

\* att: struct tu_render_pass_attachment (clear_mask has the depth or color
\* aspect; load; format has depth), view: struct tu_image_view
tu_lrz_init_state(l, dev, att, view) ==
    IF view.image.lrz_height = 0 THEN l
    ELSE
      LET clears_depth == att.clear_mask
          has_gpu_tracking == dev.has_lrz_dir_tracking
      IN  IF ~has_gpu_tracking /\ ~clears_depth THEN l
          ELSE
            LET l1 == [l EXCEPT !.image_view = view]
            IN  IF ~clears_depth /\ ~att.load THEN l1
                ELSE [l1 EXCEPT
                        !.valid = TRUE,
                        !.prev_direction = "TU_LRZ_UNKNOWN",
                        !.fast_clear = view.image.lrz_fc_size > 0,
                        !.gpu_dir_tracking = has_gpu_tracking,
                        !.reuse_previous_state = ~clears_depth]

\* Faulty variant of tu_lrz_init_secondary: it does not return on a device
\* without direction tracking.
tu_lrz_init_secondary_without_tracking_return(l, dev, att) ==
    IF dev.TU_DEBUG_NOLRZ THEN l
    ELSE IF ~att.format_has_depth THEN l
    ELSE [l EXCEPT
            !.valid = TRUE,
            !.prev_direction = "TU_LRZ_UNKNOWN",
            !.gpu_dir_tracking = dev.has_lrz_dir_tracking,
            !.fast_clear = TRUE,
            !.image_view = [null |-> TRUE],
            !.reuse_previous_state = FALSE]

\* Faulty variant of tu_lrz_init_secondary: it leaves fast_clear unset.
tu_lrz_init_secondary_without_fast_clear(l, dev, att) ==
    IF ~dev.has_lrz_dir_tracking THEN l
    ELSE IF dev.TU_DEBUG_NOLRZ THEN l
    ELSE IF ~att.format_has_depth THEN l
    ELSE [l EXCEPT
            !.valid = TRUE,
            !.prev_direction = "TU_LRZ_UNKNOWN",
            !.gpu_dir_tracking = TRUE,
            !.image_view = [null |-> TRUE],
            !.reuse_previous_state = FALSE]

tu_lrz_init_secondary(l, dev, att) ==
    LET has_gpu_tracking == dev.has_lrz_dir_tracking
    IN  IF ~has_gpu_tracking THEN l
        ELSE IF dev.TU_DEBUG_NOLRZ THEN l
        ELSE IF ~att.format_has_depth THEN l
        ELSE [l EXCEPT
                !.valid = TRUE,
                !.prev_direction = "TU_LRZ_UNKNOWN",
                !.gpu_dir_tracking = has_gpu_tracking,
                !.fast_clear = TRUE,
                !.image_view = NULL,
                !.reuse_previous_state = FALSE]

\* the loop of tu_lrz_begin_resumed_renderpass: the first attachment whose
\* image has an LRZ buffer, or attachment_count when there is none
RECURSIVE FirstLrzAttachment(_, _)
FirstLrzAttachment(atts, a) ==
    IF a > Len(atts) THEN a
    ELSE IF atts[a].image.lrz_height # 0 THEN a
    ELSE FirstLrzAttachment(atts, a + 1)

\* the loop of tu_lrz_begin_renderpass
LrzImgCount(atts) ==
    Cardinality({i \in 1..Len(atts) : atts[i].image.lrz_height # 0})

\* Faulty variant of FastClearOnClear: the clear value is not looked at.
FastClearOnClear_any_value(fast_clear, clear) == fast_clear

\* lines 287-289: fast-clear after a clear to the value clear
FastClearOnClear(fast_clear, clear) ==
    fast_clear /\ (clear = "0.0" \/ clear = "1.0")

\* p: the render pass with its framebuffer attachments; the tracker that
\* tu_lrz_begin_resumed_renderpass leaves
ResumedLrz(dev, p) ==
    LET a == FirstLrzAttachment(p.attachments, 1)
    IN  IF a = Len(p.attachments) + 1 THEN ZeroLrz
        ELSE
          LET att == p.attachments[a]
              l1  == tu_lrz_init_state(ZeroLrz, dev, att, ImageView(att.image))
          IN  IF att.clear_mask
              THEN LET clear == p.clear_values[a]
                   IN  [l1 EXCEPT
                          !.depth_clear_value = clear,
                          !.fast_clear = FastClearOnClear(l1.fast_clear, clear)]
              ELSE l1

\* TU_CMD_DIRTY_LRZ after tu_lrz_begin_resumed_renderpass
ResumedDirty(p, was) ==
    IF FirstLrzAttachment(p.attachments, 1) = Len(p.attachments) + 1
    THEN was ELSE TRUE

RECURSIVE DisableAll(_, _, _)
DisableAll(dev, atts, i) ==
    IF i > Len(atts) THEN <<>>
    ELSE tu_disable_lrz(dev, "cmd_cs", atts[i].image) \o DisableAll(dev, atts, i + 1)

\* Faulty variant of SeveralDepthAttachments: the branch is never taken.
SeveralDepthAttachments_never(dev, p) == FALSE

\* Faulty variant of SeveralDepthAttachments: the branch is taken on devices
\* without direction tracking too.
SeveralDepthAttachments_any_device(dev, p) ==
    /\ p.subpass_count > 1
    /\ LrzImgCount(p.attachments) > 1

\* tu_lrz_begin_renderpass takes the branch that disables LRZ for the pass
SeveralDepthAttachments(dev, p) ==
    /\ dev.has_lrz_dir_tracking
    /\ p.subpass_count > 1
    /\ LrzImgCount(p.attachments) > 1

-----------------------------------------------------------------------------
(* Per-draw decision *)

\* MASK(n): the low n bits, as the set of their positions
MASK(n) == 0 .. (n - 1)

\* Faulty variant of tu6_stencil_op_lrz_allowed: VK_COMPARE_OP_ALWAYS allows
\* LRZ even when the stencil is written.
tu6_stencil_op_lrz_allowed_always(gras_lrz_cntl, func, stencil_write) ==
    CASE func = "ALWAYS" ->
           [cntl |-> gras_lrz_cntl, allowed |-> TRUE]
      [] func = "NEVER" ->
           [cntl |-> [gras_lrz_cntl EXCEPT !.lrz_write = FALSE], allowed |-> TRUE]
      [] OTHER ->
           [cntl |-> [gras_lrz_cntl EXCEPT !.lrz_write = FALSE],
            allowed |-> ~stencil_write]

\* Faulty variant of tu6_stencil_op_lrz_allowed: no compare-op turns the LRZ
\* write off.
tu6_stencil_op_lrz_allowed_keeps_write(gras_lrz_cntl, func, stencil_write) ==
    CASE func = "NEVER" -> [cntl |-> gras_lrz_cntl, allowed |-> TRUE]
      [] OTHER -> [cntl |-> gras_lrz_cntl, allowed |-> ~stencil_write]

\* tu6_stencil_op_lrz_allowed: the control word it leaves and its result
tu6_stencil_op_lrz_allowed(gras_lrz_cntl, func, stencil_write) ==
    CASE func = "ALWAYS" ->
           [cntl |-> gras_lrz_cntl, allowed |-> ~stencil_write]
      [] func = "NEVER" ->
           [cntl |-> [gras_lrz_cntl EXCEPT !.lrz_write = FALSE], allowed |-> TRUE]
      [] OTHER ->
           [cntl |-> [gras_lrz_cntl EXCEPT !.lrz_write = FALSE],
            allowed |-> ~stencil_write]

\* lines 677-724: the dynamic blend state forces LRZ write off
BlendDisablesWrite(d) ==
    \/ /\ "LOGIC_OP" \in d.dynamic_state_mask
       /\ d.logic_op_enabled
       /\ d.rop_reads_dst
    \/ /\ "BLEND_ENABLE" \in d.dynamic_state_mask
       /\ d.blend_enable
    \/ /\ "BLEND" \in d.dynamic_state_mask
       /\ \E i \in 1..d.color_count :
             /\ d.color_attachments[i].used
             /\ ~d.color_attachments[i].full_mask
    \/ /\ "COLOR_WRITE_ENABLE" \in d.dynamic_state_mask
       /\ (d.color_write_enable \cap MASK(d.color_count)) # MASK(d.num_rts)

\* Faulty variant of CompareOpDirection: VK_COMPARE_OP_NEVER gives a direction.
CompareOpDirection_never_is_greater(depth_compare_op) ==
    CASE depth_compare_op \in {"GREATER", "GREATER_OR_EQUAL", "NEVER"} ->
           "TU_LRZ_GREATER"
      [] depth_compare_op \in {"LESS", "LESS_OR_EQUAL"} -> "TU_LRZ_LESS"
      [] OTHER -> "TU_LRZ_UNKNOWN"

\* Faulty variant of CompareOpDirection: VK_COMPARE_OP_EQUAL gives a direction.
CompareOpDirection_equal_is_less(depth_compare_op) ==
    CASE depth_compare_op \in {"GREATER", "GREATER_OR_EQUAL"} -> "TU_LRZ_GREATER"
      [] depth_compare_op \in {"LESS", "LESS_OR_EQUAL", "EQUAL"} -> "TU_LRZ_LESS"
      [] OTHER -> "TU_LRZ_UNKNOWN"

\* the switch on depth_compare_op, lines 754-795
CompareOpDirection(depth_compare_op) ==
    CASE depth_compare_op \in {"GREATER", "GREATER_OR_EQUAL"} -> "TU_LRZ_GREATER"
      [] depth_compare_op \in {"LESS", "LESS_OR_EQUAL"} -> "TU_LRZ_LESS"
      [] OTHER -> "TU_LRZ_UNKNOWN"

\* Faulty variant of EarlyOut: a draw with depth test off goes on.
EarlyOut_ignores_depth_test(l, dev, att, d) ==
    \/ ~l.valid
    \/ d.a_unused \/ dev.TU_DEBUG_NOLRZ
    \/ ~l.gpu_dir_tracking /\ ~att

\* Faulty variant of CompareOpInvalidates: no compare-op invalidates.
CompareOpInvalidates_never(depth_compare_op, z_write_enable) == FALSE

\* lines 756-764: VK_COMPARE_OP_ALWAYS and VK_COMPARE_OP_NOT_EQUAL with depth
\* write invalidate LRZ
CompareOpInvalidates(depth_compare_op, z_write_enable) ==
    depth_compare_op \in {"ALWAYS", "NOT_EQUAL"} /\ z_write_enable

\* lines 648-664: the draw leaves LRZ alone
EarlyOut(l, dev, att, d) ==
    \/ ~l.valid
    \/ d.a_unused \/ ~d.z_test_enable \/ dev.TU_DEBUG_NOLRZ
    \/ ~l.gpu_dir_tracking /\ ~att

\* Faulty variant of InitialCntl: TU_LRZ_FORCE_DISABLE_WRITE is not looked at.
InitialCntl_ignores_force_disable_write(l, d) ==
    [ZeroCntl EXCEPT
       !.enable = TRUE,
       !.lrz_write = d.z_write_enable,
       !.z_test_enable = d.z_write_enable,
       !.z_bounds_enable = d.z_bounds_enable,
       !.fc_enable = l.fast_clear,
       !.dir_write = l.gpu_dir_tracking,
       !.disable_on_wrong_dir = l.gpu_dir_tracking]

\* lines 666-674
InitialCntl(l, d) ==
    [ZeroCntl EXCEPT
       !.enable = TRUE,
       !.lrz_write = d.z_write_enable /\ "WRITE" \notin d.force_disable_mask,
       !.z_test_enable = d.z_write_enable,
       !.z_bounds_enable = d.z_bounds_enable,
       !.fc_enable = l.fast_clear,
       !.dir_write = l.gpu_dir_tracking,
       !.disable_on_wrong_dir = l.gpu_dir_tracking]

\* Faulty variants of DirectionChanged: a change is seen when the directions
\* agree; and no change is ever seen.
DirectionChanged_when_equal(prev_direction, lrz_direction) ==
    /\ prev_direction # "TU_LRZ_UNKNOWN"
    /\ lrz_direction # "TU_LRZ_UNKNOWN"
    /\ prev_direction = lrz_direction

DirectionChanged_never(prev_direction, lrz_direction) == FALSE

\* lines 802-804: the draw's direction contradicts the recorded one
DirectionChanged(prev_direction, lrz_direction) ==
    /\ prev_direction # "TU_LRZ_UNKNOWN"
    /\ lrz_direction # "TU_LRZ_UNKNOWN"
    /\ prev_direction # lrz_direction

\* Faulty variant of UpdateDirection: the direction is never recorded.
UpdateDirection_never(l, z_write_enable, lrz_direction) == l

\* Faulty variant of UpdateDirection: the direction is recorded without depth
\* write.
UpdateDirection_without_write(l, z_write_enable, lrz_direction) ==
    IF lrz_direction # "TU_LRZ_UNKNOWN"
    THEN [l EXCEPT !.prev_direction = lrz_direction]
    ELSE l

\* lines 826-827
UpdateDirection(l, z_write_enable, lrz_direction) ==
    IF z_write_enable /\ lrz_direction # "TU_LRZ_UNKNOWN"
    THEN [l EXCEPT !.prev_direction = lrz_direction]
    ELSE l

\* Faulty variant of InvalidateCntl: the direction of the compare-op is kept.
InvalidateCntl_keeps_dir(gras_lrz_cntl) ==
    [gras_lrz_cntl EXCEPT !.enable = TRUE]

\* Faulty variant of InvalidateCntl: the empty GRAS_LRZ_CNTL the comment of
\* lines 865-867 warns against.
InvalidateCntl_empty(gras_lrz_cntl) ==
    [enable |-> FALSE, lrz_write |-> FALSE, greater |-> FALSE,
     fc_enable |-> FALSE, z_test_enable |-> FALSE, z_bounds_enable |-> FALSE,
     dir |-> "NONE", dir_write |-> FALSE, disable_on_wrong_dir |-> FALSE]

\* lines 864-871: the control word that sets the GPU's direction byte to
\* CUR_DIR_DISABLED
InvalidateCntl(gras_lrz_cntl) ==
    [gras_lrz_cntl EXCEPT !.enable = TRUE, !.dir = "LRZ_DIR_INVALID"]

\* Faulty variant of FinalEnabled: valid is not looked at.
FinalEnabled_ignores_valid(valid, enable) == enable

\* line 877: cmd->state.lrz.enabled
FinalEnabled(valid, enable) == valid /\ enable

\* tu6_calculate_lrz_state: the tracker it leaves and the control word it
\* returns.  l: cmd->state.lrz, att: cmd->state.attachments != NULL, d: the
\* draw state (a, rb_depth_cntl, rb_stencil_cntl, pipeline, blend state)
tu6_calculate_lrz_state(l, dev, att, d) ==
    IF EarlyOut(l, dev, att, d) THEN [lrz |-> l, cntl |-> ZeroCntl]
    ELSE
      LET c0 == InitialCntl(l, d)
          c1 == IF BlendDisablesWrite(d) THEN [c0 EXCEPT !.lrz_write = FALSE] ELSE c0
          \* fragment-shader side effects, lines 736-744
          fs == "LRZ" \in d.force_disable_mask
          fs_temporary == fs /\ (l.prev_direction # "TU_LRZ_UNKNOWN" \/
                                 ~l.gpu_dir_tracking)
          fs_disable == fs /\ ~fs_temporary
          \* compare-op classification, lines 754-795
          op_any == d.depth_compare_op \in {"ALWAYS", "NOT_EQUAL"}
          op_none == d.depth_compare_op \in {"EQUAL", "NEVER"}
          op_disable == CompareOpInvalidates(d.depth_compare_op, d.z_write_enable)
          op_temporary == (op_any /\ ~d.z_write_enable) \/ op_none
          lrz_direction == CompareOpDirection(d.depth_compare_op)
          c2 == CASE op_disable -> [c1 EXCEPT !.dir = "LRZ_DIR_INVALID"]
                  [] lrz_direction = "TU_LRZ_GREATER" ->
                        [c1 EXCEPT !.greater = TRUE, !.dir = "LRZ_DIR_GE"]
                  [] lrz_direction = "TU_LRZ_LESS" ->
                        [c1 EXCEPT !.greater = FALSE, !.dir = "LRZ_DIR_LE"]
                  [] OTHER -> c1
          \* direction change, lines 802-812
          changed == DirectionChanged(l.prev_direction, lrz_direction)
          dir_disable == changed /\ d.z_write_enable
          dir_temporary == changed /\ ~d.z_write_enable
          l1 == UpdateDirection(l, d.z_write_enable, lrz_direction)
          disable0 == fs_disable \/ op_disable \/ dir_disable
          \* stencil, lines 830-859; the back face is only evaluated when the
          \* front face allows LRZ
          stencil == ~disable0 /\ d.stencil_test_enable
          front == tu6_stencil_op_lrz_allowed(c2, d.stencil_front_compare_op,
                                              d.stencil_front_write)
          back == tu6_stencil_op_lrz_allowed(front.cntl, d.stencil_back_compare_op,
                                             d.stencil_back_write)
          c3 == IF ~stencil THEN c2
                ELSE IF front.allowed THEN back.cntl ELSE front.cntl
          lrz_allowed == ~stencil \/ (front.allowed /\ back.allowed)
          disable_lrz == disable0 \/ (~lrz_allowed /\ d.z_write_enable)
          temporary_disable_lrz ==
              \/ fs_temporary \/ op_temporary \/ dir_temporary
              \/ (~lrz_allowed /\ ~d.z_write_enable)
          \* lines 861-881
          l2 == IF disable_lrz THEN [l1 EXCEPT !.valid = FALSE] ELSE l1
      IN  IF disable_lrz /\ l2.gpu_dir_tracking
          THEN [lrz |-> l2, cntl |-> InvalidateCntl(c3)]
          ELSE
            LET c4 == IF temporary_disable_lrz THEN [c3 EXCEPT !.enable = FALSE] ELSE c3
                enabled == FinalEnabled(l2.valid, c4.enable)
            IN  [lrz |-> [l2 EXCEPT !.enabled = enabled],
                 cntl |-> IF ~enabled THEN ZeroCntl ELSE c4]

\* tu6_emit_lrz: what it writes to cs for the control word it computed
EmitLrz(dev, gras_lrz_cntl) ==
    tu6_write_lrz_reg(dev, "cs", "GRAS_LRZ_CNTL", gras_lrz_cntl)
    \o <<[cmd |-> "RB_LRZ_CNTL", stream |-> "cs", enable |-> gras_lrz_cntl.enable]>>

-----------------------------------------------------------------------------
(* Tile-pass and sysmem-pass emission *)

\* Faulty variant of tu_lrz_tiling_begin: it clears LRZ when the previous
\* state is to be reused.
tu_lrz_tiling_begin_clears_on_reuse(l, dev) ==
    IF l.image_view = NULL THEN <<>>
    ELSE tu6_emit_lrz_buffer("cs", l.image_view.image)
         \o tu6_write_lrz_reg(dev, "cs", "GRAS_LRZ_DEPTH_VIEW",
                               DepthViewOf(l.image_view))
         \o tu6_write_lrz_reg(dev, "cs", "GRAS_LRZ_CNTL",
               [ZeroCntl EXCEPT
                  !.enable = TRUE,
                  !.fc_enable = l.fast_clear,
                  !.disable_on_wrong_dir = l.gpu_dir_tracking])
         \o tu6_emit_event_write("cs", "LRZ_CLEAR")

\* tu_lrz_tiling_begin: the commands it writes for tracker l
tu_lrz_tiling_begin(l, dev) ==
    IF l.image_view = NULL THEN <<>>
    ELSE
      LET image == l.image_view.image
          invalidate_lrz == ~l.valid /\ l.gpu_dir_tracking
      IN  tu6_emit_lrz_buffer("cs", image) \o
          IF l.reuse_previous_state
          THEN tu6_write_lrz_reg(dev, "cs", "GRAS_LRZ_DEPTH_VIEW",
                                 DepthViewOf(l.image_view))
          ELSE
            (IF invalidate_lrz
             THEN tu6_disable_lrz_via_depth_view(dev, "cs")
                  \o tu6_write_lrz_reg(dev, "cs", "GRAS_LRZ_DEPTH_VIEW", ZeroDepthView)
             ELSE IF l.fast_clear \/ l.gpu_dir_tracking
             THEN (IF l.gpu_dir_tracking
                   THEN tu6_write_lrz_reg(dev, "cs", "GRAS_LRZ_DEPTH_VIEW",
                                          DepthViewOf(l.image_view))
                   ELSE <<>>)
                  \o tu6_write_lrz_reg(dev, "cs", "GRAS_LRZ_CNTL",
                        [ZeroCntl EXCEPT
                           !.enable = TRUE,
                           !.fc_enable = l.fast_clear,
                           !.disable_on_wrong_dir = l.gpu_dir_tracking])
                  \o tu6_emit_event_write("cs", "LRZ_CLEAR")
             ELSE <<>>)
            \o
            (IF ~l.fast_clear /\ ~invalidate_lrz
             THEN tu6_clear_lrz("cs", image, l.depth_clear_value)
                  \o (IF image.lrz_fc_size # 0
                      THEN tu6_dirty_lrz_fc("cs", image) ELSE <<>>)
             ELSE <<>>)

\* tu_lrz_tiling_end
tu_lrz_tiling_end(l, dev) ==
    (IF l.fast_clear \/ l.gpu_dir_tracking
     THEN tu6_emit_lrz_buffer("cs", l.image_view.image)
          \o (IF l.gpu_dir_tracking
              THEN tu6_write_lrz_reg(dev, "cmd_cs", "GRAS_LRZ_DEPTH_VIEW",
                                     DepthViewOf(l.image_view))
              ELSE <<>>)
          \o tu6_write_lrz_reg(dev, "cs", "GRAS_LRZ_CNTL",
                [ZeroCntl EXCEPT
                   !.enable = TRUE,
                   !.fc_enable = l.fast_clear,
                   !.disable_on_wrong_dir = l.gpu_dir_tracking])
     ELSE tu6_write_lrz_reg(dev, "cs", "GRAS_LRZ_CNTL", ZeroCntl))
    \o tu6_emit_event_write("cs", "LRZ_FLUSH")

\* Faulty variant of tu_lrz_sysmem_begin: with direction tracking it
\* disables LRZ only for a valid tracker.
tu_lrz_sysmem_begin_only_when_valid(l, dev) ==
    IF l.image_view = NULL THEN <<>>
    ELSE IF dev.has_lrz_dir_tracking
    THEN (IF l.valid THEN tu_disable_lrz(dev, "cs", l.image_view.image) ELSE <<>>)
         \o tu6_write_lrz_reg(dev, "cs", "GRAS_LRZ_DEPTH_VIEW", ZeroDepthView)
    ELSE tu6_emit_lrz_buffer("cs", l.image_view.image)
         \o (IF l.fast_clear
             THEN tu6_write_lrz_reg(dev, "cmd_cs", "GRAS_LRZ_CNTL",
                     [ZeroCntl EXCEPT !.enable = TRUE, !.fc_enable = TRUE])
                  \o tu6_emit_event_write("cmd_cs", "LRZ_CLEAR")
                  \o tu6_emit_event_write("cmd_cs", "LRZ_FLUSH")
             ELSE tu6_clear_lrz("cs", l.image_view.image, l.depth_clear_value))

\* tu_lrz_sysmem_begin
tu_lrz_sysmem_begin(l, dev) ==
    IF l.image_view = NULL THEN <<>>
    ELSE
      LET image == l.image_view.image
      IN  IF dev.has_lrz_dir_tracking
          THEN tu_disable_lrz(dev, "cs", image)
               \o tu6_write_lrz_reg(dev, "cs", "GRAS_LRZ_DEPTH_VIEW", ZeroDepthView)
          ELSE tu6_emit_lrz_buffer("cs", image)
               \o (IF l.fast_clear
                   THEN tu6_write_lrz_reg(dev, "cmd_cs", "GRAS_LRZ_CNTL",
                           [ZeroCntl EXCEPT !.enable = TRUE, !.fc_enable = TRUE])
                        \o tu6_emit_event_write("cmd_cs", "LRZ_CLEAR")
                        \o tu6_emit_event_write("cmd_cs", "LRZ_FLUSH")
                   ELSE tu6_clear_lrz("cs", image, l.depth_clear_value))

\* tu_lrz_sysmem_end
tu_lrz_sysmem_end == tu6_emit_event_write("cmd_cs", "LRZ_FLUSH")

-----------------------------------------------------------------------------
(* Inputs *)

\* physical_device->info->a6xx and instance->debug_flags
Devices ==
    [has_lrz_dir_tracking : BOOLEAN, lrz_track_quirk : BOOLEAN,
     TU_DEBUG_NOLRZ : BOOLEAN]

\* the images behind the framebuffer attachments of a pass
ImageLists == UNION {[1..n -> Images] : n \in 0..MaxAttachments}

\* pRanges of tu_lrz_clear_depth_image, by whether each range has the depth
\* or color aspect
RangeLists == UNION {[1..n -> BOOLEAN] : n \in 0..MaxRanges}

\* A render pass with its framebuffer and clear values.  The attachments of a
\* pass share their clear mask, load op and clear value.
MkPass(images, clear, load, value, subpasses) ==
    [attachments |->
        [i \in 1..Len(images) |->
            [image |-> images[i], clear_mask |-> clear, load |-> load,
             format_has_depth |-> images[i].lrz_height # 0]],
     clear_values |-> [i \in 1..Len(images) |-> value],
     subpass_count |-> subpasses]

\* The passes of the model.  With one subpass: cleared to each depth value,
\* loaded, or neither.  With more subpasses: cleared to 1.0, or loaded.
Passes ==
    {MkPass(images, TRUE, FALSE, value, 1) :
        images \in ImageLists, value \in DepthValues}
    \cup
    {MkPass(images, FALSE, load, "0.0", 1) :
        images \in ImageLists, load \in BOOLEAN}
    \cup
    {MkPass(images, clear, ~clear, "1.0", n) :
        images \in ImageLists, clear \in BOOLEAN, n \in 2..MaxSubpasses}

\* The passes SpecDraw begins: one attachment and one subpass
DrawPasses ==
    {MkPass(<<LrzFcImage>>, TRUE, FALSE, value, 1) : value \in {"0.5", "1.0"}}
    \cup {MkPass(<<image>>, FALSE, TRUE, "0.0", 1) : image \in {LrzFcImage, NoLrzImage}}

\* subpass->depth_stencil_attachment of a secondary command buffer:
\* VK_ATTACHMENT_UNUSED, or an attachment of the inherited pass
SecondaryAttachments ==
    {[unused |-> TRUE, format_has_depth |-> FALSE]}
    \cup {[unused |-> FALSE, format_has_depth |-> b] : b \in BOOLEAN}

\* A draw with depth test and write on LESS, no stencil test, a pipeline that
\* forces nothing and no dynamic blend state
DefaultDraw ==
    [a_unused                 |-> FALSE,
     z_test_enable            |-> TRUE,
     z_write_enable           |-> TRUE,
     z_bounds_enable          |-> FALSE,
     depth_compare_op         |-> "LESS",
     force_disable_mask       |-> {},
     stencil_test_enable      |-> FALSE,
     stencil_front_compare_op |-> "ALWAYS",
     stencil_back_compare_op  |-> "ALWAYS",
     stencil_front_write      |-> FALSE,
     stencil_back_write       |-> FALSE,
     dynamic_state_mask       |-> {},
     logic_op_enabled         |-> FALSE,
     rop_reads_dst            |-> FALSE,
     blend_enable             |-> FALSE,
     color_count              |-> 0,
     color_attachments        |-> <<>>,
     color_write_enable       |-> {},
     num_rts                  |-> 0]

\* TU_LRZ_FORCE_DISABLE_LRZ and TU_LRZ_FORCE_DISABLE_WRITE
ForceDisableMasks == SUBSET {"LRZ", "WRITE"}

\* the stencil compare-ops the model draws: one for each case of
\* tu6_stencil_op_lrz_allowed
StencilOps == {"ALWAYS", "NEVER", "EQUAL"}

\* depth state
DepthDraws ==
    {[DefaultDraw EXCEPT !.z_write_enable = w, !.depth_compare_op = o] :
        w \in BOOLEAN, o \in CompareOps}

\* dynamic blend state, one dynamic state at a time
BlendDraws(base) ==
    {[base EXCEPT !.dynamic_state_mask = {"LOGIC_OP"},
                  !.logic_op_enabled = e, !.rop_reads_dst = r] :
        e \in BOOLEAN, r \in BOOLEAN}
    \cup
    {[base EXCEPT !.dynamic_state_mask = {"BLEND_ENABLE"}, !.blend_enable = e] :
        e \in BOOLEAN}
    \cup
    {[base EXCEPT !.dynamic_state_mask = {"BLEND"}, !.color_count = n,
                  !.color_attachments =
                      [i \in 1..n |-> [used |-> u, full_mask |-> f]]] :
        n \in 0..MaxColorCount, u \in BOOLEAN, f \in BOOLEAN}
    \cup
    {[base EXCEPT !.dynamic_state_mask = {"COLOR_WRITE_ENABLE"},
                  !.color_count = n, !.num_rts = r, !.color_write_enable = e] :
        n \in 0..MaxColorCount, r \in 0..MaxColorCount,
        e \in SUBSET MASK(MaxColorCount)}

\* stencil state on a draw
StencilDraws(base) ==
    {[base EXCEPT !.stencil_test_enable = TRUE,
                  !.stencil_front_compare_op = f, !.stencil_back_compare_op = b,
                  !.stencil_front_write = fw, !.stencil_back_write = bw] :
        f \in StencilOps, b \in StencilOps, fw \in BOOLEAN, bw \in BOOLEAN}

\* The draws of a pass in Spec: every depth state; and, around the default
\* draw, one of the other inputs changed at a time.
SeqDraws ==
    DepthDraws
    \cup {[DefaultDraw EXCEPT !.a_unused = TRUE],
          [DefaultDraw EXCEPT !.z_test_enable = FALSE],
          [DefaultDraw EXCEPT !.z_bounds_enable = TRUE]}
    \cup {[DefaultDraw EXCEPT !.force_disable_mask = m] : m \in ForceDisableMasks}
    \cup {[DefaultDraw EXCEPT !.stencil_test_enable = TRUE,
                              !.stencil_front_compare_op = f,
                              !.stencil_front_write = fw,
                              !.z_write_enable = w] :
             f \in StencilOps, fw \in BOOLEAN, w \in BOOLEAN}
    \cup {[DefaultDraw EXCEPT !.dynamic_state_mask = {"BLEND_ENABLE"},
                              !.blend_enable = e] : e \in BOOLEAN}

\* The draws that set the tracker up in SpecDraw: they record each direction,
\* invalidate the tracker, or suspend LRZ for the draw
SetupDraws ==
    {[DefaultDraw EXCEPT !.depth_compare_op = o] :
        o \in {"LESS", "GREATER", "ALWAYS", "EQUAL"}}

\* The draws SpecDraw ends on: every combination of depth state, pipeline
\* flags and stencil state; and every depth state under each blend state, a
\* disabled depth test, an unused depth attachment and depth bounds.
WideDraws ==
    UNION {StencilDraws([base EXCEPT !.force_disable_mask = m]) \cup
           {[base EXCEPT !.force_disable_mask = m]} :
              base \in DepthDraws, m \in ForceDisableMasks}
    \cup UNION {BlendDraws(base) : base \in DepthDraws}
    \cup {[base EXCEPT !.a_unused = a, !.z_test_enable = t, !.z_bounds_enable = b] :
             base \in DepthDraws, a \in BOOLEAN, t \in BOOLEAN, b \in BOOLEAN}

-----------------------------------------------------------------------------
(* The state machine *)

\* A command buffer before any pass is begun: its state is zeroed
Init ==
    /\ device \in Devices
    /\ pass = FALSE
    /\ attachments = FALSE
    /\ lrz = ZeroLrz
    /\ cntl = ZeroCntl
    /\ cs = <<>>
    /\ op = [name |-> "init"]
    /\ pre = ZeroLrz
    /\ dirty = FALSE
    /\ depth = 0
    /\ twin = ZeroLrz
    /\ lrz_writes = {}
    /\ trail = <<>>

\* A render pass is begun when none is being recorded: at the start of the
\* command buffer, or after the previous pass was rendered
PassEnded == ~pass \/ op.name \in {"tu_lrz_tiling_end", "tu_lrz_sysmem_end"}

\* tu_lrz_begin_renderpass, for the pass p the caller has put in cmd->state
BeginRenderpass(p) ==
    /\ PassEnded
    /\ pass' = TRUE
    /\ attachments' = TRUE
    /\ IF SeveralDepthAttachments(device, p)
       THEN /\ cs' = DisableAll(device, p.attachments, 1)
            /\ lrz' = ZeroLrz
            /\ dirty' = dirty
       ELSE /\ lrz' = ResumedLrz(device, p)
            /\ dirty' = ResumedDirty(p, dirty)
            /\ cs' = IF ~lrz'.valid THEN tu6_emit_lrz_buffer("cmd_cs", NULL) ELSE <<>>
    /\ cntl' = ZeroCntl
    /\ op' = [name |-> "tu_lrz_begin_renderpass", arg |-> p]
    /\ pre' = ZeroLrz
    /\ lrz_writes' = {}
    /\ UNCHANGED device

\* tu_lrz_begin_resumed_renderpass
BeginResumedRenderpass(p) ==
    /\ PassEnded
    /\ pass' = TRUE
    /\ attachments' = TRUE
    /\ lrz' = ResumedLrz(device, p)
    /\ dirty' = ResumedDirty(p, dirty)
    /\ cs' = <<>>
    /\ cntl' = ZeroCntl
    /\ op' = [name |-> "tu_lrz_begin_resumed_renderpass", arg |-> p]
    /\ pre' = ZeroLrz
    /\ lrz_writes' = {}
    /\ UNCHANGED device

\* tu_lrz_begin_secondary_cmdbuf; a secondary command buffer has no
\* cmd->state.attachments
BeginSecondaryCmdbuf(a) ==
    /\ pass' = TRUE
    /\ attachments' = FALSE
    /\ lrz' = IF a.unused THEN ZeroLrz
              ELSE tu_lrz_init_secondary(ZeroLrz, device, a)
    /\ cs' = <<>>
    /\ cntl' = ZeroCntl
    /\ op' = [name |-> "tu_lrz_begin_secondary_cmdbuf", arg |-> a]
    /\ pre' = ZeroLrz
    /\ lrz_writes' = {}
    /\ UNCHANGED <<device, dirty>>

\* tu6_emit_lrz for a draw with state d
EmitDraw(d) ==
    /\ pass
    /\ LET r == tu6_calculate_lrz_state(lrz, device, attachments, d)
       IN  /\ lrz' = r.lrz
           /\ cntl' = r.cntl
           /\ cs' = EmitLrz(device, r.cntl)
    /\ op' = [name |-> "tu6_emit_lrz", arg |-> d]
    /\ pre' = lrz
    /\ lrz_writes' = IF cntl'.lrz_write /\ lrz'.valid
                     THEN lrz_writes \cup {cntl'.dir}
                     ELSE lrz_writes
    /\ UNCHANGED <<device, pass, attachments, dirty>>

\* Faulty variant of tu_lrz_disable_during_renderpass: it validates the tracker.
tu_lrz_disable_during_renderpass_validates(l) == [l EXCEPT !.valid = TRUE]

\* tu_lrz_disable_during_renderpass: the tracker it leaves
tu_lrz_disable_during_renderpass(l) == [l EXCEPT !.valid = FALSE]

\* tu_lrz_disable_during_renderpass
DisableDuringRenderpass ==
    /\ pass
    /\ lrz' = tu_lrz_disable_during_renderpass(lrz)
    /\ dirty' = TRUE
    /\ cs' = IF lrz.gpu_dir_tracking
             THEN tu6_write_lrz_reg(device, "cmd_cs", "GRAS_LRZ_CNTL",
                     [ZeroCntl EXCEPT
                        !.enable = TRUE,
                        !.dir = "LRZ_DIR_INVALID",
                        !.disable_on_wrong_dir = TRUE])
             ELSE <<>>
    /\ op' = [name |-> "tu_lrz_disable_during_renderpass"]
    /\ pre' = lrz
    /\ UNCHANGED <<device, pass, attachments, cntl, lrz_writes>>

\* Faulty variant of Emitter: the operation zeroes the tracker.
Emitter_zeroes_tracker(name, commands) ==
    /\ pass
    /\ attachments
    /\ cs' = commands
    /\ op' = [name |-> name]
    /\ pre' = lrz
    /\ lrz' = ZeroLrz
    /\ UNCHANGED <<device, pass, attachments, cntl, dirty, lrz_writes>>

\* an operation that only writes commands, in the primary command buffer
\* that renders the pass
Emitter(name, commands) ==
    /\ pass
    /\ attachments
    /\ cs' = commands
    /\ op' = [name |-> name]
    /\ pre' = lrz
    /\ UNCHANGED <<device, pass, attachments, lrz, cntl, dirty, lrz_writes>>

TilingBegin == Emitter("tu_lrz_tiling_begin", tu_lrz_tiling_begin(lrz, device))

TilingEnd == Emitter("tu_lrz_tiling_end", tu_lrz_tiling_end(lrz, device))

SysmemBegin == Emitter("tu_lrz_sysmem_begin", tu_lrz_sysmem_begin(lrz, device))

SysmemEnd == Emitter("tu_lrz_sysmem_end", tu_lrz_sysmem_end)

\* an operation outside a render pass, before the first pass or after a
\* pass was rendered: it writes commands and leaves the tracker alone
OutOfPass(name, arg, commands) ==
    /\ PassEnded
    /\ cs' = commands
    /\ op' = [name |-> name, arg |-> arg]
    /\ pre' = lrz
    /\ UNCHANGED <<device, pass, attachments, lrz, cntl, dirty, lrz_writes>>

\* tu_disable_lrz called for an image that a copy or blit writes; the
\* caller passes &cmd->cs
DisableLrz(image) ==
    OutOfPass("tu_disable_lrz", [image |-> image],
              tu_disable_lrz(device, "cmd_cs", image))

\* tu_lrz_clear_depth_image
ClearDepthImage(image, value, ranges) ==
    OutOfPass("tu_lrz_clear_depth_image",
              [image |-> image, depth |-> value, ranges |-> ranges],
              tu_lrz_clear_depth_image(device, image, value, ranges))

Next ==
    \/ \E p \in Passes : BeginRenderpass(p) /\ UNCHANGED <<depth, twin, trail>>
    \/ \E p \in Passes : BeginResumedRenderpass(p) /\ UNCHANGED <<depth, twin, trail>>
    \/ \E a \in SecondaryAttachments : BeginSecondaryCmdbuf(a) /\ UNCHANGED <<depth, twin, trail>>
    \/ \E d \in SeqDraws : EmitDraw(d) /\ UNCHANGED <<depth, twin, trail>>
    \/ DisableDuringRenderpass /\ UNCHANGED <<depth, twin, trail>>
    \/ TilingBegin /\ UNCHANGED <<depth, twin, trail>>
    \/ TilingEnd /\ UNCHANGED <<depth, twin, trail>>
    \/ SysmemBegin /\ UNCHANGED <<depth, twin, trail>>
    \/ SysmemEnd /\ UNCHANGED <<depth, twin, trail>>
    \/ ~pass /\ \E image \in Images :
          DisableLrz(image) /\ UNCHANGED <<depth, twin, trail>>
    \/ ~pass /\ \E image \in Images, value \in DepthValues, ranges \in RangeLists :
          ClearDepthImage(image, value, ranges) /\ UNCHANGED <<depth, twin, trail>>

Spec == Init /\ [][Next]_vars

\* A pass begins, at most one draw or mid-pass disable sets the tracker up,
\* and one draw of WideDraws ends the behaviour.
NextDraw ==
    \/ depth = 0 /\ \E p \in DrawPasses :
                       BeginRenderpass(p) /\ depth' = 1 /\ UNCHANGED <<twin, trail>>
    \/ depth = 0 /\ \E a \in SecondaryAttachments :
                       BeginSecondaryCmdbuf(a) /\ depth' = 1 /\ UNCHANGED <<twin, trail>>
    \/ depth = 1 /\ \E d \in SetupDraws :
                       EmitDraw(d) /\ depth' = 2 /\ UNCHANGED <<twin, trail>>
    \/ depth = 1 /\ DisableDuringRenderpass /\ depth' = 2 /\ UNCHANGED <<twin, trail>>
    \/ depth \in {1, 2} /\ \E d \in WideDraws :
                            EmitDraw(d) /\ depth' = 3 /\ UNCHANGED <<twin, trail>>

SpecDraw == Init /\ [][NextDraw]_vars

\* the device that differs from device in has_lrz_dir_tracking only
TwinDevice ==
    [device EXCEPT !.has_lrz_dir_tracking = ~device.has_lrz_dir_tracking]

\* The passes SpecTwin begins: one attachment with an LRZ buffer, cleared,
\* so that the tracker begins valid with and without direction tracking
TwinPasses ==
    {MkPass(<<image>>, TRUE, FALSE, value, 1) :
        image \in {LrzImage, LrzFcImage}, value \in DepthValues}

\* The same pass and the same draws recorded twice: lrz on device, twin on
\* TwinDevice.
NextTwin ==
    \/ \E p \in TwinPasses :
          /\ BeginRenderpass(p)
          /\ twin' = ResumedLrz(TwinDevice, p)
          /\ UNCHANGED <<depth, trail>>
    \/ \E d \in SeqDraws :
          /\ EmitDraw(d)
          /\ twin' = tu6_calculate_lrz_state(twin, TwinDevice, attachments, d).lrz
          /\ UNCHANGED <<depth, trail>>

SpecTwin == Init /\ [][NextTwin]_vars

\* The draws of SpecSeq: the default draw with a compare-op of either
\* direction or one that suspends LRZ, with and without depth write
TrailDraws ==
    {[DefaultDraw EXCEPT !.depth_compare_op = o, !.z_write_enable = w] :
        o \in {"GREATER", "LESS", "EQUAL", "NEVER"}, w \in BOOLEAN}

\* A pass that begins valid and up to MaxTrail draws of it, recorded in trail.
NextSeq ==
    \/ depth = 0 /\ \E p \in TwinPasses :
          /\ BeginRenderpass(p)
          /\ depth' = 1
          /\ trail' = <<>>
          /\ UNCHANGED twin
    \/ depth >= 1 /\ Len(trail) < MaxTrail /\ \E d \in TrailDraws :
          /\ EmitDraw(d)
          /\ trail' = Append(trail, [arg |-> d, lrz |-> lrz'])
          /\ UNCHANGED <<depth, twin>>

SpecSeq == Init /\ [][NextSeq]_vars

\* The draws of SpecPass: the default draw with a compare-op of either
\* direction, with and without depth write
PassDraws ==
    {[DefaultDraw EXCEPT !.depth_compare_op = o, !.z_write_enable = w] :
        o \in {"GREATER", "LESS"}, w \in BOOLEAN}

\* A primary pass or a secondary command buffer is begun and up to
\* MaxTrail - 1 draws are recorded in it.  trail holds the begin operation
\* and then the draws; twin is the tracker tu_lrz_begin_resumed_renderpass
\* leaves for the pass that tu_lrz_begin_renderpass began.
NextPass ==
    \/ depth = 0 /\ \E p \in Passes :
          /\ BeginRenderpass(p)
          /\ twin' = ResumedLrz(device, p)
          /\ trail' = <<[name |-> op'.name, arg |-> p, lrz |-> lrz']>>
          /\ depth' = 1
    \/ depth = 0 /\ \E p \in Passes :
          /\ BeginResumedRenderpass(p)
          /\ trail' = <<[name |-> op'.name, arg |-> p, lrz |-> lrz']>>
          /\ depth' = 1
          /\ UNCHANGED twin
    \/ depth = 0 /\ \E a \in SecondaryAttachments :
          /\ BeginSecondaryCmdbuf(a)
          /\ trail' = <<[name |-> op'.name, arg |-> a, lrz |-> lrz']>>
          /\ depth' = 1
          /\ UNCHANGED twin
    \/ depth = 1 /\ Len(trail) < MaxTrail /\ \E d \in PassDraws :
          /\ EmitDraw(d)
          /\ trail' = Append(trail, [arg |-> d, lrz |-> lrz'])
          /\ UNCHANGED <<depth, twin>>

SpecPass == Init /\ [][NextPass]_vars

\* A pass begins, at most one draw or mid-pass disable sets the tracker up,
\* the pass is rendered (its tile-pass or sysmem begin, then its end), and
\* one operation outside the pass ends the behaviour; or that operation is
\* the first of the command buffer.
NextOut ==
    \/ depth = 0 /\ \E p \in DrawPasses :
          BeginRenderpass(p) /\ depth' = 1 /\ UNCHANGED <<twin, trail>>
    \/ depth = 1 /\ \E d \in SetupDraws :
          EmitDraw(d) /\ depth' = 2 /\ UNCHANGED <<twin, trail>>
    \/ depth = 1 /\ DisableDuringRenderpass /\ depth' = 2 /\ UNCHANGED <<twin, trail>>
    \/ depth \in {1, 2} /\ TilingBegin /\ depth' = 2 /\ UNCHANGED <<twin, trail>>
    \/ depth \in {1, 2} /\ SysmemBegin /\ depth' = 2 /\ UNCHANGED <<twin, trail>>
    \/ depth \in {1, 2} /\ TilingEnd /\ depth' = 3 /\ UNCHANGED <<twin, trail>>
    \/ depth \in {1, 2} /\ SysmemEnd /\ depth' = 3 /\ UNCHANGED <<twin, trail>>
    \/ depth \in {0, 3} /\ \E image \in Images :
          DisableLrz(image) /\ depth' = 4 /\ UNCHANGED <<twin, trail>>
    \/ depth \in {0, 3} /\ \E image \in Images, value \in DepthValues,
                              ranges \in RangeLists :
          ClearDepthImage(image, value, ranges) /\ depth' = 4 /\ UNCHANGED <<twin, trail>>

SpecOut == Init /\ [][NextOut]_vars

-----------------------------------------------------------------------------
(* Properties.  op is the operation that produced the state, pre the       *)
(* tracker it found, lrz the tracker it left, cntl the directive of the    *)
(* last draw and cs the commands the operation wrote.                      *)

\* the operations that reset the tracker
BeginOps ==
    {"tu_lrz_begin_renderpass", "tu_lrz_begin_resumed_renderpass",
     "tu_lrz_begin_secondary_cmdbuf"}

\* the operations outside a render pass
OutOfPassOps == {"tu_disable_lrz", "tu_lrz_clear_depth_image"}

\* the state was produced by an operation inside a pass
InPassOp == op.name \notin (BeginOps \cup OutOfPassOps \cup {"init"})

\* the state was produced by a draw
IsDraw == op.name = "tu6_emit_lrz"

\* the draw found a valid tracker with the recorded direction Less, and has
\* an attachment bound, depth test on and the compare-op Greater
FlipDraw ==
    /\ IsDraw
    /\ pre.valid
    /\ pre.prev_direction = "TU_LRZ_LESS"
    /\ ~op.arg.a_unused
    /\ op.arg.z_test_enable
    /\ op.arg.depth_compare_op = "GREATER"

\* the GRAS_LRZ_CNTL value the draw wrote to its command stream
ControlWrite == cs[1]

\* C1: within a pass, an operation that finds the tracker invalid (a draw, a
\* mid-pass disable, tile begin/end, sysmem begin/end) leaves it invalid; so
\* valid, once false, stays false until the next begin.
C1_MonotonicInvalidation ==
    (InPassOp /\ ~pre.valid) => ~lrz.valid

\* C1 witness: a draw with depth test on and an attachment bound found a
\* tracker that an earlier draw had invalidated after recording a direction,
\* and left it invalid.
C1_Witness ==
    /\ IsDraw
    /\ ~pre.valid
    /\ pre.prev_direction # "TU_LRZ_UNKNOWN"
    /\ op.arg.z_test_enable
    /\ ~op.arg.a_unused
    /\ ~lrz.valid

\* C2: a draw with compare-op Greater on a valid tracker whose recorded
\* direction is Less, with an attachment bound and depth test on: with depth
\* write the tracker is invalid afterwards; without depth write the tracker
\* is still valid and the directive has testEnable (enable) false.
C2_DirectionFlip ==
    FlipDraw =>
        IF op.arg.z_write_enable
        THEN ~lrz.valid
        ELSE lrz.valid /\ ~cntl.enable

\* C2 witness: the flip without depth write, on a draw with stencil test on
\* and a stencil op that allows LRZ; the tracker stays valid.
C2_Witness ==
    /\ FlipDraw
    /\ ~op.arg.z_write_enable
    /\ op.arg.stencil_test_enable
    /\ op.arg.stencil_front_compare_op = "NEVER"
    /\ lrz.valid
    /\ ~cntl.enable

\* C2 witness of the other branch: the flip with depth write invalidates.
C2_WitnessWrite ==
    /\ FlipDraw
    /\ op.arg.z_write_enable
    /\ ~lrz.valid

\* the second draw of scenario B: Greater with depth write, after a draw
\* recorded Less on a tracker the pass began valid
ScenarioBDraw ==
    /\ FlipDraw
    /\ op.arg.z_write_enable
    /\ depth = 3

\* C3 as stated: draw 2's directive has testEnable and writeEnable false, the
\* tracker is invalid, and with device-side tracking the control write
\* carries direction Invalid.
C3_AsStated ==
    ScenarioBDraw =>
        /\ ~cntl.enable
        /\ ~cntl.lrz_write
        /\ ~lrz.valid
        /\ lrz.gpu_dir_tracking => ControlWrite.value.dir = "LRZ_DIR_INVALID"

\* C3: after draw 2 of scenario B the tracker is invalid.  Without
\* device-side tracking the directive is empty (testEnable and writeEnable
\* false).  With device-side tracking the directive has testEnable true,
\* direction Invalid and disableOnDirectionMismatch true, and it is the
\* GRAS_LRZ_CNTL value written for the draw.
C3_ScenarioB ==
    ScenarioBDraw =>
        /\ ~lrz.valid
        /\ ControlWrite.reg = "GRAS_LRZ_CNTL"
        /\ ControlWrite.value = cntl
        /\ IF lrz.gpu_dir_tracking
           THEN /\ cntl.enable
                /\ cntl.dir = "LRZ_DIR_INVALID"
                /\ cntl.disable_on_wrong_dir
           ELSE cntl = ZeroCntl

\* C3 witness: draw 2 of scenario B with device-side tracking; its directive
\* keeps writeEnable.
C3_Witness ==
    /\ ScenarioBDraw
    /\ lrz.gpu_dir_tracking
    /\ cntl.enable
    /\ cntl.lrz_write
    /\ ControlWrite.value.dir = "LRZ_DIR_INVALID"

\* the draw has stencil test on and a face with compare-op Always and stencil
\* write
StencilWriteDraw ==
    /\ IsDraw
    /\ op.arg.stencil_test_enable
    /\ \/ op.arg.stencil_front_compare_op = "ALWAYS" /\ op.arg.stencil_front_write
       \/ op.arg.stencil_back_compare_op = "ALWAYS" /\ op.arg.stencil_back_write

\* C4 as stated: such a draw's directive has testEnable false.
C4_AsStated ==
    StencilWriteDraw => ~cntl.enable

\* C4: the directive of a draw with stencil test on and a face with
\* compare-op Always and stencil write has testEnable false, except when the
\* draw invalidates a tracker with device-side tracking: then, and only then,
\* testEnable is true, and the direction is Invalid.
C4_StencilWrite ==
    StencilWriteDraw =>
        /\ cntl.enable <=> (pre.valid /\ ~lrz.valid /\ pre.gpu_dir_tracking)
        /\ cntl.enable => cntl.dir = "LRZ_DIR_INVALID"

\* C4 witness: such a draw with depth test on, without depth write, on a
\* valid tracker; LRZ is suspended for the draw and the tracker stays valid.
C4_Witness ==
    /\ StencilWriteDraw
    /\ pre.valid
    /\ op.arg.z_test_enable
    /\ ~op.arg.a_unused
    /\ ~op.arg.z_write_enable
    /\ op.arg.depth_compare_op = "LESS"
    /\ lrz.valid
    /\ ~cntl.enable

\* C4 witness of the exception: such a draw with depth write invalidates a
\* tracker with device-side tracking.
C4_WitnessInvalidate ==
    /\ StencilWriteDraw
    /\ pre.valid
    /\ pre.gpu_dir_tracking
    /\ op.arg.z_write_enable
    /\ op.arg.depth_compare_op = "LESS"
    /\ ~lrz.valid
    /\ cntl.enable

\* C5: a draw with depth write disabled leaves the recorded direction as it
\* found it.
C5_DirectionStability ==
    (IsDraw /\ ~op.arg.z_write_enable) =>
        lrz.prev_direction = pre.prev_direction

\* C5 witness: a draw without depth write and with the compare-op
\* GreaterOrEqual got past the early returns on a tracker that recorded Less.
C5_Witness ==
    /\ IsDraw
    /\ ~op.arg.z_write_enable
    /\ op.arg.depth_compare_op = "GREATER_OR_EQUAL"
    /\ op.arg.z_test_enable
    /\ ~op.arg.a_unused
    /\ pre.valid
    /\ pre.prev_direction = "TU_LRZ_LESS"
    /\ lrz.prev_direction = "TU_LRZ_LESS"

\* C6 as stated: once the recorded direction is Less or Greater, every later
\* operation of the pass leaves it at that value.
C6_AsStated ==
    (InPassOp /\ pre.prev_direction # "TU_LRZ_UNKNOWN") =>
        lrz.prev_direction = pre.prev_direction

\* C6: once the recorded direction is Less or Greater, every operation of the
\* pass that leaves the tracker valid keeps it; the only operation that
\* changes it is the draw with depth write and the opposite direction, which
\* invalidates the tracker and records its own direction.
C6_DirectionMonotone ==
    (InPassOp /\ pre.prev_direction # "TU_LRZ_UNKNOWN") =>
        \/ lrz.prev_direction = pre.prev_direction
        \/ /\ IsDraw
           /\ pre.valid
           /\ ~lrz.valid
           /\ op.arg.z_write_enable
           /\ lrz.prev_direction # "TU_LRZ_UNKNOWN"
           /\ lrz.prev_direction = CompareOpDirection(op.arg.depth_compare_op)

\* C6 witness: a draw with depth write and the recorded direction's own
\* compare-op keeps direction and validity.
C6_Witness ==
    /\ IsDraw
    /\ pre.valid
    /\ pre.prev_direction = "TU_LRZ_GREATER"
    /\ op.arg.z_write_enable
    /\ op.arg.depth_compare_op = "GREATER_OR_EQUAL"
    /\ lrz.valid
    /\ lrz.prev_direction = "TU_LRZ_GREATER"

\* C6 witness of the exception: the draw that overwrites Less by Greater.
C6_WitnessOverwrite ==
    /\ IsDraw
    /\ pre.prev_direction = "TU_LRZ_LESS"
    /\ lrz.prev_direction = "TU_LRZ_GREATER"
    /\ ~lrz.valid

\* C7: an operation inside a pass that finds the recorded direction Unknown
\* and leaves it known is a draw with depth write and a compare-op among
\* Less, LessOrEqual, Greater, GreaterOrEqual.
C7_LeavesUnknown ==
    (InPassOp /\ pre.prev_direction = "TU_LRZ_UNKNOWN"
              /\ lrz.prev_direction # "TU_LRZ_UNKNOWN") =>
        /\ IsDraw
        /\ op.arg.z_write_enable
        /\ op.arg.depth_compare_op \in
              {"LESS", "LESS_OR_EQUAL", "GREATER", "GREATER_OR_EQUAL"}

\* C7 witness: a draw with depth write and LessOrEqual records Less on a
\* tracker whose direction was Unknown.
C7_Witness ==
    /\ IsDraw
    /\ pre.prev_direction = "TU_LRZ_UNKNOWN"
    /\ op.arg.depth_compare_op = "LESS_OR_EQUAL"
    /\ op.arg.z_write_enable
    /\ lrz.prev_direction = "TU_LRZ_LESS"

\* the state was produced by a primary render-pass begin
IsPrimaryBegin ==
    op.name \in {"tu_lrz_begin_renderpass", "tu_lrz_begin_resumed_renderpass"}

\* the pass begun has an attachment with an LRZ buffer
HasDepthImage ==
    FirstLrzAttachment(op.arg.attachments, 1) <= Len(op.arg.attachments)

\* the first attachment of the pass begun with an LRZ buffer
DepthAttachment ==
    op.arg.attachments[FirstLrzAttachment(op.arg.attachments, 1)]

\* the clear value the pass begun gives for that attachment
DepthClearValue ==
    op.arg.clear_values[FirstLrzAttachment(op.arg.attachments, 1)]

\* C8 as stated: after a primary begin, fast_clear holds exactly when the
\* depth image has a fast-clear buffer and the clear value the tracker
\* recorded is 0.0 or 1.0.
C8_AsStated ==
    IsPrimaryBegin =>
        (lrz.fast_clear <=>
            /\ HasDepthImage
            /\ DepthAttachment.image.lrz_fc_size > 0
            /\ lrz.depth_clear_value \in {"0.0", "1.0"})

\* C8: after a primary begin, fast_clear holds exactly when the tracker is
\* valid, the depth image has a fast-clear buffer and, if the pass clears the
\* depth attachment, the clear value is 0.0 or 1.0.
C8_FastClear ==
    IsPrimaryBegin =>
        (lrz.fast_clear <=>
            /\ lrz.valid
            /\ HasDepthImage
            /\ DepthAttachment.image.lrz_fc_size > 0
            /\ DepthAttachment.clear_mask => DepthClearValue \in {"0.0", "1.0"})

\* C8 witness: a pass that clears an image with a fast-clear buffer to 0.5
\* begins with a valid tracker and fast_clear false.
C8_Witness ==
    /\ IsPrimaryBegin
    /\ HasDepthImage
    /\ DepthAttachment.image.lrz_fc_size > 0
    /\ DepthAttachment.clear_mask
    /\ DepthClearValue = "0.5"
    /\ lrz.valid
    /\ ~lrz.fast_clear

\* C8 witness of the other side: a clear to 1.0 begins with fast_clear.
C8_WitnessFastClear ==
    /\ IsPrimaryBegin
    /\ HasDepthImage
    /\ DepthAttachment.clear_mask
    /\ DepthClearValue = "1.0"
    /\ lrz.fast_clear

\* C9: in every state, reuse_previous_state implies gpu_dir_tracking, which
\* is what tu_lrz_tiling_begin asserts at line 366.
C9_ReusePrecondition ==
    lrz.reuse_previous_state => lrz.gpu_dir_tracking

\* C9 witness: tu_lrz_tiling_begin ran on a tracker that reuses the previous
\* pass's state.
C9_Witness ==
    /\ op.name = "tu_lrz_tiling_begin"
    /\ lrz.reuse_previous_state
    /\ lrz.gpu_dir_tracking

\* a secondary command buffer began with device-side tracking available and
\* a depth attachment bound whose format has a depth aspect
ScenarioCBegin ==
    /\ op.name = "tu_lrz_begin_secondary_cmdbuf"
    /\ device.has_lrz_dir_tracking
    /\ ~op.arg.unused
    /\ op.arg.format_has_depth

\* the tracker of scenario C
ScenarioCTracker ==
    /\ lrz.valid
    /\ lrz.prev_direction = "TU_LRZ_UNKNOWN"
    /\ lrz.gpu_dir_tracking
    /\ lrz.fast_clear
    /\ lrz.image_view = NULL
    /\ ~lrz.reuse_previous_state

\* C10 as stated: every such begin leaves the tracker of scenario C.
C10_AsStated ==
    ScenarioCBegin => ScenarioCTracker

\* C10: every such begin with TU_DEBUG_NOLRZ unset leaves the tracker valid,
\* with direction Unknown, device-side tracking, fast_clear, no image view
\* and no reuse; with TU_DEBUG_NOLRZ set it leaves the zeroed tracker.
C10_ScenarioC ==
    ScenarioCBegin =>
        IF device.TU_DEBUG_NOLRZ THEN lrz = ZeroLrz ELSE ScenarioCTracker

\* C10 witness: such a begin with TU_DEBUG_NOLRZ unset.
C10_Witness ==
    /\ ScenarioCBegin
    /\ ~device.TU_DEBUG_NOLRZ
    /\ ScenarioCTracker

\* the positions in cs of the event writes of one event
EventWrites(event) ==
    {i \in 1..Len(cs) : cs[i].cmd = "EVENT_WRITE" /\ cs[i].event = event}

\* every LRZ_CLEAR the operation wrote is directly followed by an LRZ_FLUSH
ClearsAreFlushed ==
    \A i \in EventWrites("LRZ_CLEAR") : (i + 1) \in EventWrites("LRZ_FLUSH")

\* the GRAS_LRZ_CNTL values the operation wrote
ControlWords ==
    {cs[i].value : i \in {j \in 1..Len(cs) :
        cs[j].cmd \in {"PKT4", "CP_REG_WRITE"} /\ cs[j].reg = "GRAS_LRZ_CNTL"}}

\* the operation wrote a full-value clear of the LRZ buffer
FullValueClear == \E i \in 1..Len(cs) : cs[i].cmd = "tu6_clear_lrz"

\* tile-pass begin of scenario A: the tracker is as a pass left it that
\* cleared an image with a fast-clear buffer to 0.0 or 1.0
ScenarioATileBegin ==
    /\ op.name = "tu_lrz_tiling_begin"
    /\ lrz.valid
    /\ lrz.fast_clear
    /\ ~lrz.reuse_previous_state
    /\ lrz.depth_clear_value \in {"0.0", "1.0"}

\* C11 as stated: tile-pass begin of scenario A writes a control word with
\* fast-clear enabled, exactly one LRZ_CLEAR, paired with an LRZ_FLUSH, and
\* no full-value clear.
C11_AsStated ==
    ScenarioATileBegin =>
        /\ \E c \in ControlWords : c.enable /\ c.fc_enable
        /\ Cardinality(EventWrites("LRZ_CLEAR")) = 1
        /\ Cardinality(EventWrites("LRZ_FLUSH")) = 1
        /\ ClearsAreFlushed
        /\ ~FullValueClear

\* C11, what tile-pass begin of scenario A does write: one control word, with
\* fast-clear enabled, then one LRZ_CLEAR as its last command, no LRZ_FLUSH
\* and no full-value clear.
C11_TileBeginWrites ==
    ScenarioATileBegin =>
        /\ \A c \in ControlWords : c.enable /\ c.fc_enable
        /\ Cardinality(ControlWords) = 1
        /\ EventWrites("LRZ_CLEAR") = {Len(cs)}
        /\ EventWrites("LRZ_FLUSH") = {}
        /\ ~FullValueClear

\* C11 witness: tile-pass begin of scenario A after a clear to 1.0.
C11_Witness ==
    /\ ScenarioATileBegin
    /\ lrz.depth_clear_value = "1.0"
    /\ EventWrites("LRZ_CLEAR") # {}

\* the lifecycle operations that write LRZ events
LifecycleOps ==
    {"tu_lrz_tiling_begin", "tu_lrz_tiling_end", "tu_lrz_sysmem_begin",
     "tu_lrz_sysmem_end", "tu_disable_lrz", "tu_lrz_clear_depth_image"}

\* C12 as stated: in the commands of every lifecycle operation, every
\* LRZ_CLEAR is directly followed by an LRZ_FLUSH.
C12_AsStated ==
    op.name \in LifecycleOps => ClearsAreFlushed

\* C12, the operations that do follow the policy: every lifecycle operation
\* but tile-pass begin, and tile-pass begin when it disables LRZ through the
\* depth view.
C12_FlushedElsewhere ==
    (/\ op.name \in LifecycleOps
     /\ op.name = "tu_lrz_tiling_begin" => (~lrz.valid /\ lrz.gpu_dir_tracking))
        => ClearsAreFlushed

\* C12 witness: an out-of-pass clear wrote its LRZ_CLEAR and LRZ_FLUSH.
C12_Witness ==
    /\ op.name = "tu_lrz_clear_depth_image"
    /\ EventWrites("LRZ_CLEAR") # {}
    /\ ClearsAreFlushed

\* the tracker recorded with device-side tracking and the one recorded
\* without, of lrz and twin
DeviceTracked == IF device.has_lrz_dir_tracking THEN lrz ELSE twin
CpuTracked == IF device.has_lrz_dir_tracking THEN twin ELSE lrz

\* C13 as stated: after a pass began valid and after every draw of it, the
\* tracker recorded with device-side tracking and the one recorded without
\* agree on valid and on the recorded direction.
C13_AsStated ==
    /\ lrz.valid = twin.valid
    /\ lrz.prev_direction = twin.prev_direction

\* C13, how far the two agree: the tracker recorded with device-side
\* tracking is valid only if the one recorded without is, and while both are
\* valid they record the same direction.
C13_DivergesOneWay ==
    /\ DeviceTracked.valid => CpuTracked.valid
    /\ (DeviceTracked.valid /\ CpuTracked.valid) =>
          DeviceTracked.prev_direction = CpuTracked.prev_direction

\* C13 witness: after a draw with depth write, the two trackers are valid and
\* record Less.
C13_Witness ==
    /\ IsDraw
    /\ op.arg.z_write_enable
    /\ DeviceTracked.valid
    /\ DeviceTracked.gpu_dir_tracking
    /\ CpuTracked.valid
    /\ ~CpuTracked.gpu_dir_tracking
    /\ CpuTracked.prev_direction = "TU_LRZ_LESS"

\* C13 divergence: a draw of a pipeline with TU_LRZ_FORCE_DISABLE_LRZ on
\* trackers with the direction Unknown invalidates the device-tracked one
\* only.
C13_Divergence ==
    /\ IsDraw
    /\ "LRZ" \in op.arg.force_disable_mask
    /\ ~DeviceTracked.valid
    /\ CpuTracked.valid

\* the draw's directive enables LRZ write and the draw left the tracker valid
WritingDraw == IsDraw /\ cntl.lrz_write /\ lrz.valid

\* C14: the directives of one pass that enable LRZ write and leave the
\* tracker valid all carry one direction, LessEqual or GreaterEqual, and the
\* direction of each is the direction the tracker records after the draw.
C14_NoConflictingWrite ==
    /\ Cardinality(lrz_writes) <= 1
    /\ lrz_writes \subseteq {"LRZ_DIR_LE", "LRZ_DIR_GE"}
    /\ WritingDraw =>
          \/ cntl.dir = "LRZ_DIR_LE" /\ lrz.prev_direction = "TU_LRZ_LESS"
          \/ cntl.dir = "LRZ_DIR_GE" /\ lrz.prev_direction = "TU_LRZ_GREATER"

\* C14 witness: a draw with GreaterOrEqual writes LRZ on a tracker that
\* recorded Greater, after a directive of the pass wrote with GreaterEqual.
C14_Witness ==
    /\ WritingDraw
    /\ pre.valid
    /\ pre.prev_direction = "TU_LRZ_GREATER"
    /\ op.arg.depth_compare_op = "GREATER_OR_EQUAL"
    /\ cntl.dir = "LRZ_DIR_GE"
    /\ lrz_writes = {"LRZ_DIR_GE"}

\* the draw found the tracker invalid, or no depth attachment, or the depth
\* test off, or TU_DEBUG_NOLRZ set
EarlyOutDraw ==
    /\ IsDraw
    /\ \/ ~pre.valid
       \/ op.arg.a_unused
       \/ ~op.arg.z_test_enable
       \/ device.TU_DEBUG_NOLRZ

\* C15: a draw computed with the tracker invalid, or no depth attachment, or
\* the depth test off, or TU_DEBUG_NOLRZ set returns the all-zero directive
\* and changes none of valid, direction, fast_clear, gpu_dir_tracking,
\* reuse_previous_state and image_view.
C15_EarlyOut ==
    EarlyOutDraw =>
        /\ cntl = ZeroCntl
        /\ lrz.valid = pre.valid
        /\ lrz.prev_direction = pre.prev_direction
        /\ lrz.fast_clear = pre.fast_clear
        /\ lrz.gpu_dir_tracking = pre.gpu_dir_tracking
        /\ lrz.reuse_previous_state = pre.reuse_previous_state
        /\ lrz.image_view = pre.image_view

\* C15 witness: a draw with depth write and the depth test off on a valid
\* tracker that recorded Less and has fast_clear.
C15_Witness ==
    /\ EarlyOutDraw
    /\ pre.valid
    /\ pre.fast_clear
    /\ pre.prev_direction = "TU_LRZ_LESS"
    /\ ~op.arg.z_test_enable
    /\ op.arg.z_write_enable
    /\ ~op.arg.a_unused
    /\ ~device.TU_DEBUG_NOLRZ
    /\ cntl = ZeroCntl

\* C15 witness of the override: a draw on a valid tracker with TU_DEBUG_NOLRZ.
C15_WitnessOverride ==
    /\ EarlyOutDraw
    /\ pre.valid
    /\ op.arg.z_test_enable
    /\ ~op.arg.a_unused
    /\ device.TU_DEBUG_NOLRZ
    /\ lrz.valid

\* the draw triggered full invalidate: it found the tracker valid and left
\* it invalid
FullInvalidate == IsDraw /\ pre.valid /\ ~lrz.valid

\* the directive that tells the device that LRZ is disabled
InvalidDirective ==
    /\ cntl.enable
    /\ cntl.dir = "LRZ_DIR_INVALID"
    /\ cntl.disable_on_wrong_dir

\* C16: a draw that triggers full invalidate leaves valid false and returns,
\* with device-side tracking, a directive with testEnable true, direction
\* Invalid and disableOnDirectionMismatch true, and without device-side
\* tracking the all-zero directive; and no other draw returns a directive
\* with testEnable true and direction Invalid.
C16_FullInvalidate ==
    /\ FullInvalidate =>
          IF pre.gpu_dir_tracking THEN InvalidDirective ELSE cntl = ZeroCntl
    /\ (IsDraw /\ cntl.enable /\ cntl.dir = "LRZ_DIR_INVALID") =>
          (FullInvalidate /\ pre.gpu_dir_tracking)

\* C16 witness: a draw with compare-op Always and depth write invalidates a
\* tracker with device-side tracking.
C16_Witness ==
    /\ FullInvalidate
    /\ pre.gpu_dir_tracking
    /\ op.arg.depth_compare_op = "ALWAYS"
    /\ op.arg.z_write_enable
    /\ InvalidDirective

\* C16 witness without device-side tracking: a direction change invalidates.
C16_WitnessCpu ==
    /\ FullInvalidate
    /\ ~pre.gpu_dir_tracking
    /\ pre.prev_direction = "TU_LRZ_LESS"
    /\ op.arg.depth_compare_op = "GREATER"
    /\ cntl = ZeroCntl

\* C17 as stated: after every draw, enabled equals valid and the directive's
\* testEnable, and enabled is not true while the tracker is invalid.
C17_AsStated ==
    IsDraw =>
        /\ lrz.enabled = (lrz.valid /\ cntl.enable)
        /\ lrz.enabled => lrz.valid

\* the draw returned before line 877: at one of the early returns, or with
\* the directive of a full invalidate under device-side tracking
ReturnsBeforeEnabled ==
    \/ EarlyOut(pre, device, attachments, op.arg)
    \/ FullInvalidate /\ pre.gpu_dir_tracking

\* C17: a draw that reaches the end of the computation leaves enabled equal
\* to valid and the directive's testEnable; a draw that returns early, or
\* with the directive of a full invalidate under device-side tracking,
\* leaves enabled as the last draw computed it.
C17_Enabled ==
    IsDraw =>
        IF ReturnsBeforeEnabled
        THEN lrz.enabled = pre.enabled
        ELSE lrz.enabled = (lrz.valid /\ cntl.enable)

\* C17 witness: a draw that reaches the end of the computation on a tracker
\* whose enabled was set, and is suspended: enabled becomes false.
C17_Witness ==
    /\ IsDraw
    /\ ~ReturnsBeforeEnabled
    /\ pre.enabled
    /\ lrz.valid
    /\ ~cntl.enable
    /\ ~lrz.enabled

\* C17 witness of the stale flag: enabled is true on an invalid tracker.
C17_WitnessStale ==
    /\ FullInvalidate
    /\ lrz.enabled

\* the draw got past the early returns with a pipeline that has
\* TU_LRZ_FORCE_DISABLE_LRZ
ForceDisableDraw ==
    /\ IsDraw
    /\ pre.valid
    /\ op.arg.z_test_enable
    /\ ~op.arg.a_unused
    /\ ~device.TU_DEBUG_NOLRZ
    /\ "LRZ" \in op.arg.force_disable_mask

\* the draw was suspended: empty directive, and the tracker stays valid
\* unless a rule that needs depth write invalidates it
Suspended ==
    /\ lrz.valid => cntl = ZeroCntl
    /\ ~op.arg.z_write_enable => lrz.valid

\* C18 as stated: a draw of a pipeline with the force-disable-LRZ flag is
\* suspended if the recorded direction is Less or Greater, and invalidates
\* the tracker if it is Unknown, with or without device-side tracking.
C18_AsStated ==
    ForceDisableDraw =>
        IF pre.prev_direction # "TU_LRZ_UNKNOWN"
        THEN Suspended
        ELSE ~lrz.valid

\* C18, what the code does: with the direction Unknown the draw invalidates
\* the tracker only under device-side tracking; in every other case it is
\* suspended.
C18_ForceDisable ==
    ForceDisableDraw =>
        IF pre.prev_direction = "TU_LRZ_UNKNOWN" /\ pre.gpu_dir_tracking
        THEN ~lrz.valid
        ELSE Suspended

\* C18 divergence: such a draw without device-side tracking and with the
\* direction Unknown leaves the tracker valid.
C18_Divergence ==
    /\ ForceDisableDraw
    /\ pre.prev_direction = "TU_LRZ_UNKNOWN"
    /\ ~pre.gpu_dir_tracking
    /\ lrz.valid
    /\ cntl = ZeroCntl

\* the draw has the compare-op Always or NotEqual, on a valid tracker with an
\* attachment bound and the depth test on
AlwaysDraw ==
    /\ IsDraw
    /\ pre.valid
    /\ ~op.arg.a_unused
    /\ op.arg.z_test_enable
    /\ op.arg.depth_compare_op \in {"ALWAYS", "NOT_EQUAL"}

\* C19 as stated: such a draw with depth write leaves the tracker invalid;
\* without depth write its directive has testEnable and writeEnable false and
\* the recorded direction is unchanged.
C19_AsStated ==
    AlwaysDraw =>
        IF op.arg.z_write_enable
        THEN ~lrz.valid
        ELSE /\ ~cntl.enable
             /\ ~cntl.lrz_write
             /\ lrz.prev_direction = pre.prev_direction

\* C19: with TU_DEBUG_NOLRZ unset, such a draw with depth write leaves the
\* tracker invalid; without depth write the recorded direction is unchanged
\* and the directive has writeEnable false, and testEnable false unless the
\* draw invalidates the tracker under device-side tracking, which only the
\* force-disable-LRZ flag with the direction Unknown makes it do.
C19_AlwaysNotEqual ==
    (AlwaysDraw /\ ~device.TU_DEBUG_NOLRZ) =>
        IF op.arg.z_write_enable
        THEN ~lrz.valid
        ELSE /\ lrz.prev_direction = pre.prev_direction
             /\ ~cntl.lrz_write
             /\ cntl.enable <=> (~lrz.valid /\ pre.gpu_dir_tracking)
             /\ ~lrz.valid =>
                   /\ "LRZ" \in op.arg.force_disable_mask
                   /\ pre.prev_direction = "TU_LRZ_UNKNOWN"
                   /\ pre.gpu_dir_tracking

\* C19 witness: NotEqual without depth write on a tracker that recorded Less
\* suspends LRZ for the draw.
C19_Witness ==
    /\ AlwaysDraw
    /\ ~device.TU_DEBUG_NOLRZ
    /\ op.arg.depth_compare_op = "NOT_EQUAL"
    /\ ~op.arg.z_write_enable
    /\ pre.prev_direction = "TU_LRZ_LESS"
    /\ lrz.valid
    /\ cntl = ZeroCntl

\* C19 witness with depth write: Always invalidates.
C19_WitnessWrite ==
    /\ AlwaysDraw
    /\ ~device.TU_DEBUG_NOLRZ
    /\ op.arg.depth_compare_op = "ALWAYS"
    /\ op.arg.z_write_enable
    /\ ~lrz.valid

\* C19 witness of the exception: Always without depth write, with the
\* force-disable-LRZ flag, returns the full-invalidate directive.
C19_WitnessInvalidate ==
    /\ AlwaysDraw
    /\ ~op.arg.z_write_enable
    /\ ~lrz.valid
    /\ cntl.enable

\* the pass recorded in trail: a first draw with Greater and depth write that
\* recorded Greater, a second draw with Equal or Never, and a third draw with
\* the compare-op third
GreaterEqualThen(third) ==
    /\ Len(trail) = 3
    /\ trail[1].arg.depth_compare_op = "GREATER"
    /\ trail[1].arg.z_write_enable
    /\ trail[1].lrz.valid
    /\ trail[1].lrz.prev_direction = "TU_LRZ_GREATER"
    /\ trail[2].arg.depth_compare_op \in {"EQUAL", "NEVER"}
    /\ trail[3].arg.depth_compare_op = third

\* a draw with Equal or Never, stencil test off and no force-disable flag
\* returns the empty directive and leaves valid and the direction unchanged
EqualNeverSuspends ==
    (/\ IsDraw
     /\ op.arg.depth_compare_op \in {"EQUAL", "NEVER"}
     /\ ~op.arg.stencil_test_enable
     /\ "LRZ" \notin op.arg.force_disable_mask)
        => /\ cntl = ZeroCntl
           /\ lrz.valid = pre.valid
           /\ lrz.prev_direction = pre.prev_direction

\* C20: a draw with Equal or Never, stencil test off and no force-disable
\* flag returns the empty directive and leaves valid and the recorded
\* direction unchanged, with or without depth write; after Greater with
\* depth write and then Equal or Never, a third draw with Greater has
\* testEnable true, and a third draw with Less and depth write leaves the
\* tracker invalid.
C20_EqualNever ==
    /\ EqualNeverSuspends
    /\ GreaterEqualThen("GREATER") => (cntl.enable /\ lrz.valid)
    /\ (GreaterEqualThen("LESS") /\ trail[3].arg.z_write_enable) => ~lrz.valid

\* C20 witness: Greater with depth write, Equal with depth write, Greater:
\* the third draw has testEnable true with the direction GreaterEqual.
C20_Witness ==
    /\ GreaterEqualThen("GREATER")
    /\ trail[2].arg.depth_compare_op = "EQUAL"
    /\ trail[2].arg.z_write_enable
    /\ trail[2].lrz.valid
    /\ trail[2].lrz.prev_direction = "TU_LRZ_GREATER"
    /\ cntl.enable
    /\ cntl.dir = "LRZ_DIR_GE"

\* C20 witness of the second sequence: Greater, Equal, Less with depth write.
C20_WitnessLess ==
    /\ GreaterEqualThen("LESS")
    /\ trail[3].arg.z_write_enable
    /\ pre.valid
    /\ ~lrz.valid

-----------------------------------------------------------------------------
\* a draw with the stencil test on and a stencil compare-op other than
\* Always on the front or the back face
StencilOpDraw ==
    /\ IsDraw
    /\ op.arg.stencil_test_enable
    /\ \/ op.arg.stencil_front_compare_op # "ALWAYS"
       \/ op.arg.stencil_back_compare_op # "ALWAYS"

\* C21 as stated: every draw with the stencil test on and a front or back
\* compare-op other than Always returns a directive with writeEnable false.
C21_AsStated == StencilOpDraw => ~cntl.lrz_write

\* C21: a draw with the stencil test on and a front or back stencil
\* compare-op other than Always returns a directive with writeEnable false,
\* unless the draw fully invalidates a tracker with device-side tracking: then
\* it returns the full-invalidate directive, whose writeEnable the stencil
\* rule has only cleared if the faces were evaluated (no earlier step had
\* invalidated, and for the back face the front face allowed LRZ).
C21_StencilWriteOff ==
    StencilOpDraw =>
        \/ ~cntl.lrz_write
        \/ /\ FullInvalidate
           /\ pre.gpu_dir_tracking
           /\ InvalidDirective
           /\ \/ CompareOpInvalidates(op.arg.depth_compare_op, op.arg.z_write_enable)
              \/ DirectionChanged(pre.prev_direction,
                                  CompareOpDirection(op.arg.depth_compare_op))
              \/ "LRZ" \in op.arg.force_disable_mask
              \/ /\ op.arg.stencil_front_compare_op = "ALWAYS"
                 /\ op.arg.stencil_front_write

\* C21 witness: the stencil rule turns the write off on a draw that tests
\* and would write LRZ: front face Always without stencil write, back face
\* Never, depth write on.
C21_Witness ==
    /\ StencilOpDraw
    /\ pre.valid
    /\ op.arg.z_write_enable
    /\ op.arg.force_disable_mask = {}
    /\ op.arg.stencil_front_compare_op = "ALWAYS"
    /\ ~op.arg.stencil_front_write
    /\ op.arg.stencil_back_compare_op = "NEVER"
    /\ cntl.enable
    /\ ~cntl.lrz_write
    /\ lrz.valid

\* C21 witness of the exception: the front face is Always with stencil
\* write, the back face Never is not evaluated, and the full-invalidate
\* directive keeps writeEnable.
C21_WitnessSkipped ==
    /\ StencilOpDraw
    /\ FullInvalidate
    /\ pre.gpu_dir_tracking
    /\ op.arg.depth_compare_op = "LESS"
    /\ pre.prev_direction = "TU_LRZ_UNKNOWN"
    /\ op.arg.force_disable_mask = {}
    /\ op.arg.stencil_front_compare_op = "ALWAYS"
    /\ op.arg.stencil_front_write
    /\ op.arg.stencil_back_compare_op = "NEVER"
    /\ cntl.lrz_write

-----------------------------------------------------------------------------
\* C22: the directive a draw returns has testEnable true only if before the
\* draw the tracker was valid, the subpass had a depth attachment and the
\* depth test was on; and it has writeEnable true only if moreover the depth
\* write is on, the pipeline does not force the LRZ write off and testEnable
\* is true in the same directive.
C22_NeverUpgraded ==
    IsDraw =>
        /\ cntl.enable =>
              /\ pre.valid
              /\ ~op.arg.a_unused
              /\ op.arg.z_test_enable
        /\ cntl.lrz_write =>
              /\ cntl.enable
              /\ op.arg.z_write_enable
              /\ "WRITE" \notin op.arg.force_disable_mask

\* C22 witness: a draw whose directive tests and writes LRZ.
C22_Witness ==
    /\ IsDraw
    /\ pre.valid
    /\ cntl.enable
    /\ cntl.lrz_write
    /\ lrz.valid

\* C22 witness: with depth write on, TU_LRZ_FORCE_DISABLE_WRITE leaves a
\* directive that tests and does not write.
C22_WitnessForced ==
    /\ IsDraw
    /\ op.arg.z_write_enable
    /\ "WRITE" \in op.arg.force_disable_mask
    /\ ~op.arg.stencil_test_enable
    /\ cntl.enable
    /\ ~cntl.lrz_write

-----------------------------------------------------------------------------
\* tu_lrz_begin_renderpass took the branch that disables LRZ for a pass with
\* several subpasses and several LRZ images
BeganDisabled ==
    /\ op.name = "tu_lrz_begin_renderpass"
    /\ SeveralDepthAttachments(device, op.arg)

\* a primary begin found an attachment with an LRZ buffer, and the pass
\* clears it or the device tracks the direction
InitCondition ==
    /\ IsPrimaryBegin
    /\ ~BeganDisabled
    /\ HasDepthImage
    /\ DepthAttachment.clear_mask \/ device.has_lrz_dir_tracking

\* the tracker is populated for the attachment found
Populated ==
    /\ lrz.valid
    /\ lrz.prev_direction = "TU_LRZ_UNKNOWN"
    /\ lrz.fast_clear <=>
          /\ DepthAttachment.image.lrz_fc_size > 0
          /\ DepthAttachment.clear_mask => DepthClearValue \in {"0.0", "1.0"}
    /\ lrz.gpu_dir_tracking = device.has_lrz_dir_tracking
    /\ lrz.reuse_previous_state = ~DepthAttachment.clear_mask

\* C23 as stated: outside the several-depth-attachments case, a primary
\* begin that finds an LRZ attachment, with a depth clear or device-side
\* tracking, populates the tracker for every load op; without an LRZ
\* attachment the tracker is zero.
C23_AsStated ==
    /\ InitCondition => Populated
    /\ (IsPrimaryBegin /\ ~BeganDisabled /\ ~HasDepthImage) => lrz = ZeroLrz

\* C23: outside the several-depth-attachments case, a primary begin that
\* finds an LRZ attachment, with a depth clear or device-side tracking,
\* records the attachment's view; it populates the tracker if the attachment
\* is cleared or loaded, and otherwise leaves every other field zero.  When
\* no attachment has an LRZ buffer, or the one found is not cleared and the
\* device does not track the direction, the tracker is zero.
C23_Populates ==
    /\ InitCondition =>
          /\ lrz.image_view = ImageView(DepthAttachment.image)
          /\ IF DepthAttachment.clear_mask \/ DepthAttachment.load
             THEN Populated
             ELSE lrz = [ZeroLrz EXCEPT !.image_view = ImageView(DepthAttachment.image)]
    /\ (IsPrimaryBegin /\ ~BeganDisabled /\ ~InitCondition) => lrz = ZeroLrz

\* C23 witness: with device-side tracking, a pass that loads its LRZ
\* attachment without clearing it begins valid and reuses the previous state.
C23_Witness ==
    /\ InitCondition
    /\ ~DepthAttachment.clear_mask
    /\ DepthAttachment.load
    /\ lrz.valid
    /\ lrz.gpu_dir_tracking
    /\ lrz.reuse_previous_state

\* C23 witness: with device-side tracking, a pass that neither clears nor
\* loads its LRZ attachment begins invalid with the view recorded.
C23_WitnessDontCare ==
    /\ InitCondition
    /\ ~DepthAttachment.clear_mask
    /\ ~DepthAttachment.load
    /\ ~lrz.valid
    /\ lrz.image_view # NULL

\* C23 witness: a pass without an LRZ attachment begins with the zero tracker.
C23_WitnessNone ==
    /\ IsPrimaryBegin
    /\ Len(op.arg.attachments) > 0
    /\ ~HasDepthImage
    /\ lrz = ZeroLrz

-----------------------------------------------------------------------------
\* the pass has more than one subpass and more than one attachment with an
\* LRZ buffer
SeveralSubpassesAndImages(p) ==
    p.subpass_count > 1 /\ LrzImgCount(p.attachments) > 1

\* the current pass of SpecPass was begun by tu_lrz_begin_renderpass
PrimaryPass ==
    Len(trail) >= 1 /\ trail[1].name = "tu_lrz_begin_renderpass"

\* the images written as GRAS_LRZ_BUFFER_BASE by the last operation, in order
RECURSIVE BufferBases(_)
BufferBases(commands) ==
    IF commands = <<>> THEN <<>>
    ELSE (IF Head(commands).cmd = "GRAS_LRZ_BUFFER_BASE"
          THEN <<Head(commands).image>> ELSE <<>>)
         \o BufferBases(Tail(commands))

\* the images of the attachments that have an LRZ buffer, in order
RECURSIVE LrzImagesOf(_)
LrzImagesOf(atts) ==
    IF atts = <<>> THEN <<>>
    ELSE (IF Head(atts).image.lrz_height # 0 THEN <<Head(atts).image>> ELSE <<>>)
         \o LrzImagesOf(Tail(atts))

\* the commands are, for each image in order, the disable sequence of
\* tu_disable_lrz: buffer base, invalid depth view, disabling control word,
\* LRZ_CLEAR, LRZ_FLUSH
DisableSequences(commands, images) ==
    /\ Len(commands) = 5 * Len(images)
    /\ \A i \in 1..Len(images) :
          LET k == 5 * (i - 1)
          IN  /\ commands[k + 1].cmd = "GRAS_LRZ_BUFFER_BASE"
              /\ commands[k + 1].image = images[i]
              /\ commands[k + 2].reg = "GRAS_LRZ_DEPTH_VIEW"
              /\ commands[k + 2].value = InvalidDepthView
              /\ commands[k + 3].reg = "GRAS_LRZ_CNTL"
              /\ commands[k + 3].value =
                    [ZeroCntl EXCEPT !.enable = TRUE, !.disable_on_wrong_dir = TRUE]
              /\ commands[k + 4].event = "LRZ_CLEAR"
              /\ commands[k + 5].event = "LRZ_FLUSH"

\* C24 as stated: on every device, a pass with several subpasses and several
\* LRZ images begins with the zero tracker and no draw of it gets a
\* non-empty directive.
C24_AsStated ==
    (PrimaryPass /\ SeveralSubpassesAndImages(trail[1].arg)) =>
        /\ lrz = ZeroLrz
        /\ cntl = ZeroCntl

\* C24: on a device with direction tracking, tu_lrz_begin_renderpass of a
\* pass with several subpasses and several LRZ images writes the disable
\* sequence for each LRZ image and leaves the zero tracker; every draw of
\* the pass leaves the tracker zero and returns the empty directive.
C24_SeveralAttachments ==
    (/\ PrimaryPass
     /\ SeveralSubpassesAndImages(trail[1].arg)
     /\ device.has_lrz_dir_tracking) =>
        /\ lrz = ZeroLrz
        /\ cntl = ZeroCntl
        /\ \A i \in 1..Len(trail) : trail[i].lrz = ZeroLrz
        /\ op.name = "tu_lrz_begin_renderpass" =>
              DisableSequences(cs, LrzImagesOf(op.arg.attachments))

\* C24 witness: two draws with depth test and write were recorded in such a
\* pass, which clears its attachments.
C24_Witness ==
    /\ PrimaryPass
    /\ SeveralSubpassesAndImages(trail[1].arg)
    /\ device.has_lrz_dir_tracking
    /\ ~device.TU_DEBUG_NOLRZ
    /\ trail[1].arg.attachments[1].clear_mask
    /\ Len(trail) = 3
    /\ trail[2].arg.depth_compare_op = "LESS"
    /\ trail[3].arg.depth_compare_op = "LESS"
    /\ cntl = ZeroCntl

\* C24 witness of the begin: the pass has two attachments with an LRZ
\* buffer, and two disable sequences are written.
C24_WitnessBegin ==
    /\ op.name = "tu_lrz_begin_renderpass"
    /\ device.has_lrz_dir_tracking
    /\ Len(trail) = 1
    /\ SeveralSubpassesAndImages(op.arg)
    /\ Len(cs) = 10
    /\ BufferBases(cs) = <<LrzImage, LrzFcImage>>

\* C24 witness without direction tracking: the same pass begins valid and a
\* draw of it tests LRZ.
C24_WitnessCpu ==
    /\ PrimaryPass
    /\ SeveralSubpassesAndImages(trail[1].arg)
    /\ ~device.has_lrz_dir_tracking
    /\ trail[1].lrz.valid
    /\ IsDraw
    /\ cntl.enable

-----------------------------------------------------------------------------
C25_WitnessInvalid ==
    /\ op.name = "tu_lrz_begin_renderpass"
    /\ HasDepthImage
    /\ lrz = twin
    /\ ~lrz.valid
    /\ cs # <<>>

\* C25 witness of the resumed begin: a valid tracker and no commands.
C25_WitnessResumed ==
    /\ op.name = "tu_lrz_begin_resumed_renderpass"
    /\ lrz.valid
    /\ cs = <<>>

\* C25 witness of the exception: the resumed begin leaves a valid tracker
\* where the normal begin leaves the zero tracker.
C25_Divergence ==
    /\ op.name = "tu_lrz_begin_renderpass"
    /\ lrz = ZeroLrz
    /\ twin.valid

-----------------------------------------------------------------------------
\* the current command buffer of SpecPass is a secondary one that began on
\* a device without direction tracking, or without a depth attachment, or
\* with one whose format has no depth aspect
SecondaryWithoutLrz ==
    /\ Len(trail) >= 1
    /\ trail[1].name = "tu_lrz_begin_secondary_cmdbuf"
    /\ \/ ~device.has_lrz_dir_tracking
       \/ trail[1].arg.unused
       \/ ~trail[1].arg.format_has_depth

\* C26: in such a secondary command buffer the tracker is zero after the
\* begin and after every draw, and every draw returns the empty directive.
C26_SecondaryWithoutTracking ==
    SecondaryWithoutLrz =>
        /\ lrz = ZeroLrz
        /\ \A i \in 1..Len(trail) : trail[i].lrz = ZeroLrz
        /\ cntl = ZeroCntl

\* C26 witness: two draws with depth test and write were recorded in a
\* secondary command buffer with a depth attachment on a device without
\* direction tracking.
C26_Witness ==
    /\ SecondaryWithoutLrz
    /\ ~device.has_lrz_dir_tracking
    /\ ~device.TU_DEBUG_NOLRZ
    /\ ~trail[1].arg.unused
    /\ trail[1].arg.format_has_depth
    /\ Len(trail) = 3
    /\ trail[2].arg.z_write_enable
    /\ IsDraw
    /\ cntl = ZeroCntl

\* C26 witness of the other side: with direction tracking and a depth
\* format, a draw of the secondary command buffer tests LRZ.
C26_WitnessTracking ==
    /\ Len(trail) >= 2
    /\ trail[1].name = "tu_lrz_begin_secondary_cmdbuf"
    /\ device.has_lrz_dir_tracking
    /\ IsDraw
    /\ cntl.enable

-----------------------------------------------------------------------------
\* the operation wrote a fast-clear-dirty
FastClearDirty == \E i \in 1..Len(cs) : cs[i].cmd = "tu6_dirty_lrz_fc"

\* command i of the operation writes register reg with value
IsRegWrite(i, reg, value) ==
    /\ cs[i].cmd \in {"PKT4", "CP_REG_WRITE"}
    /\ cs[i].reg = reg
    /\ cs[i].value = value

\* command i of the operation writes the LRZ buffer base of image
IsBufferBase(i, image) ==
    /\ cs[i].cmd = "GRAS_LRZ_BUFFER_BASE"
    /\ cs[i].image = image

\* C27: tu_lrz_tiling_begin writes nothing when the tracker has no image
\* view; when it has one and reuse_previous_state is set, it writes the
\* buffer base of the image and the depth view of the image view and
\* nothing else: no LRZ_CLEAR, no LRZ_FLUSH, no GRAS_LRZ_CNTL, no full-value
\* clear and no fast-clear-dirty.
C27_TileBeginReuse ==
    op.name = "tu_lrz_tiling_begin" =>
        /\ lrz.image_view = NULL => cs = <<>>
        /\ (lrz.image_view # NULL /\ lrz.reuse_previous_state) =>
              /\ Len(cs) = 2
              /\ IsBufferBase(1, lrz.image_view.image)
              /\ IsRegWrite(2, "GRAS_LRZ_DEPTH_VIEW", DepthViewOf(lrz.image_view))
              /\ EventWrites("LRZ_CLEAR") = {}
              /\ EventWrites("LRZ_FLUSH") = {}
              /\ ControlWords = {}
              /\ ~FullValueClear
              /\ ~FastClearDirty

\* C27 witness: tile-pass begin of a pass that loads its LRZ image on a
\* device with direction tracking.
C27_Witness ==
    /\ op.name = "tu_lrz_tiling_begin"
    /\ lrz.image_view # NULL
    /\ lrz.reuse_previous_state
    /\ lrz.valid
    /\ Len(cs) = 2

\* C27 witness: the same after the tracker was invalidated during the pass.
C27_WitnessInvalid ==
    /\ op.name = "tu_lrz_tiling_begin"
    /\ lrz.reuse_previous_state
    /\ ~lrz.valid
    /\ Len(cs) = 2

\* C27 witness: tile-pass begin of a pass without an LRZ image writes
\* nothing.
C27_WitnessNoView ==
    /\ op.name = "tu_lrz_tiling_begin"
    /\ lrz.image_view = NULL
    /\ cs = <<>>

-----------------------------------------------------------------------------
\* command i of the operation is the event write of event
IsEvent(i, event) == cs[i].cmd = "EVENT_WRITE" /\ cs[i].event = event

\* the control word that disables LRZ on a mismatch of the depth view
DisablingCntl ==
    [ZeroCntl EXCEPT !.enable = TRUE, !.disable_on_wrong_dir = TRUE]

\* tu_lrz_tiling_begin ran on a tracker with an image view
TileBeginWithView ==
    op.name = "tu_lrz_tiling_begin" /\ lrz.image_view # NULL

\* the tracker takes the invalidate branch of tu_lrz_tiling_begin
InvalidateBranch ==
    /\ ~lrz.reuse_previous_state
    /\ ~lrz.valid
    /\ lrz.gpu_dir_tracking

\* C28: tu_lrz_tiling_begin on a tracker with an image view, without reuse,
\* invalid and with gpu_dir_tracking writes, after the buffer base, the
\* invalid depth view, the control word with enable and
\* disable_on_wrong_dir, LRZ_CLEAR, LRZ_FLUSH and the zero depth view, and
\* neither a full-value clear nor a fast-clear-dirty.  On a tracker with an
\* image view it writes a full-value clear exactly when reuse and
\* fast_clear are false and the invalidate branch is not taken.
C28_TileBeginInvalid ==
    TileBeginWithView =>
        /\ InvalidateBranch =>
              /\ Len(cs) = 6
              /\ IsBufferBase(1, lrz.image_view.image)
              /\ IsRegWrite(2, "GRAS_LRZ_DEPTH_VIEW", InvalidDepthView)
              /\ IsRegWrite(3, "GRAS_LRZ_CNTL", DisablingCntl)
              /\ IsEvent(4, "LRZ_CLEAR")
              /\ IsEvent(5, "LRZ_FLUSH")
              /\ IsRegWrite(6, "GRAS_LRZ_DEPTH_VIEW", ZeroDepthView)
              /\ ~FullValueClear
              /\ ~FastClearDirty
        /\ FullValueClear <=>
              /\ ~lrz.reuse_previous_state
              /\ ~lrz.fast_clear
              /\ ~InvalidateBranch

\* C28 witness: tile-pass begin after a pass that cleared its LRZ image, on
\* a device with direction tracking, was invalidated.
C28_Witness ==
    /\ TileBeginWithView
    /\ InvalidateBranch
    /\ device.has_lrz_dir_tracking
    /\ Len(cs) = 6

\* C28 witness of the full-value clear on a valid tracker: a clear to 0.5
\* on a device with direction tracking.
C28_WitnessFullClear ==
    /\ TileBeginWithView
    /\ lrz.valid
    /\ lrz.gpu_dir_tracking
    /\ ~lrz.fast_clear
    /\ FullValueClear
    /\ FastClearDirty

\* C28 witness of the full-value clear on an invalid tracker: the pass
\* neither clears nor loads its LRZ image, so that gpu_dir_tracking was
\* never set.
C28_WitnessUnset ==
    /\ TileBeginWithView
    /\ ~lrz.valid
    /\ device.has_lrz_dir_tracking
    /\ ~lrz.gpu_dir_tracking
    /\ FullValueClear

\* C28 witness: fast-clear, and so no full-value clear.
C28_WitnessFastClear ==
    /\ TileBeginWithView
    /\ ~lrz.reuse_previous_state
    /\ lrz.fast_clear
    /\ ~FullValueClear

-----------------------------------------------------------------------------
\* commands k+1 .. k+5 of the operation are the disable sequence for image:
\* buffer base, invalid depth view, disabling control word, LRZ_CLEAR,
\* LRZ_FLUSH
IsDisableSequence(k, image) ==
    /\ Len(cs) >= k + 5
    /\ IsBufferBase(k + 1, image)
    /\ IsRegWrite(k + 2, "GRAS_LRZ_DEPTH_VIEW", InvalidDepthView)
    /\ IsRegWrite(k + 3, "GRAS_LRZ_CNTL", DisablingCntl)
    /\ IsEvent(k + 4, "LRZ_CLEAR")
    /\ IsEvent(k + 5, "LRZ_FLUSH")

\* tu_lrz_sysmem_begin ran on a tracker with an image view on a device with
\* direction tracking
SysmemBeginTracked ==
    /\ op.name = "tu_lrz_sysmem_begin"
    /\ lrz.image_view # NULL
    /\ device.has_lrz_dir_tracking

\* C29: on a device with direction tracking, tu_lrz_sysmem_begin on a
\* tracker with an image view writes the disable sequence for the image and
\* then the zero depth view, whatever valid, fast_clear and
\* reuse_previous_state are; tu_lrz_sysmem_end writes one LRZ_FLUSH.
C29_SysmemDisable ==
    /\ SysmemBeginTracked =>
          /\ Len(cs) = 6
          /\ IsDisableSequence(0, lrz.image_view.image)
          /\ IsRegWrite(6, "GRAS_LRZ_DEPTH_VIEW", ZeroDepthView)
    /\ op.name = "tu_lrz_sysmem_end" =>
          /\ Len(cs) = 1
          /\ IsEvent(1, "LRZ_FLUSH")

\* C29 witness: sysmem begin on a valid tracker with fast-clear.
C29_Witness ==
    /\ SysmemBeginTracked
    /\ lrz.valid
    /\ lrz.fast_clear
    /\ ~lrz.reuse_previous_state
    /\ Len(cs) = 6

\* C29 witness: sysmem begin on an invalid tracker.
C29_WitnessInvalid ==
    /\ SysmemBeginTracked
    /\ ~lrz.valid
    /\ Len(cs) = 6

\* C29 witness: sysmem begin on a tracker that reuses the previous state.
C29_WitnessReuse ==
    /\ SysmemBeginTracked
    /\ lrz.reuse_previous_state
    /\ ~lrz.fast_clear
    /\ Len(cs) = 6

\* C29 witness: sysmem end.
C29_WitnessEnd ==
    /\ op.name = "tu_lrz_sysmem_end"
    /\ lrz.valid
    /\ Len(cs) = 1

-----------------------------------------------------------------------------
\* tu_disable_lrz was called outside a pass for an image with an LRZ buffer
DisableLrzCall ==
    op.name = "tu_disable_lrz" /\ op.arg.image.lrz_height # 0

\* C30 as stated: every tu_disable_lrz on an image with an LRZ buffer writes
\* the disable sequence.
C30_AsStated ==
    DisableLrzCall =>
        /\ Len(cs) = 5
        /\ IsDisableSequence(0, op.arg.image)

\* C30: tu_disable_lrz on an image with an LRZ buffer writes, on a device
\* with direction tracking, the buffer base, the invalid depth view, the
\* disabling control word, LRZ_CLEAR and LRZ_FLUSH, whatever the tracker
\* is, and leaves the tracker alone; on a device without direction tracking
\* it writes nothing.
C30_OutOfPassDisable ==
    DisableLrzCall =>
        /\ lrz = pre
        /\ IF device.has_lrz_dir_tracking
           THEN /\ Len(cs) = 5
                /\ IsDisableSequence(0, op.arg.image)
           ELSE cs = <<>>

\* C30 witness: the call follows a pass that left a valid tracker with a
\* direction recorded.
C30_Witness ==
    /\ DisableLrzCall
    /\ device.has_lrz_dir_tracking
    /\ lrz.valid
    /\ lrz.prev_direction # "TU_LRZ_UNKNOWN"
    /\ Len(cs) = 5

\* C30 witness: the call follows a pass that was invalidated.
C30_WitnessInvalid ==
    /\ DisableLrzCall
    /\ device.has_lrz_dir_tracking
    /\ ~lrz.valid
    /\ lrz.image_view # NULL
    /\ Len(cs) = 5

\* C30 witness: the call is the first operation of the command buffer.
C30_WitnessFirst ==
    /\ DisableLrzCall
    /\ device.has_lrz_dir_tracking
    /\ ~pass
    /\ Len(cs) = 5

\* C30 witness without direction tracking: nothing is written.
C30_WitnessCpu ==
    /\ DisableLrzCall
    /\ ~device.has_lrz_dir_tracking
    /\ lrz.valid
    /\ cs = <<>>

-----------------------------------------------------------------------------
\* tu_lrz_clear_depth_image was called
ClearImageCall == op.name = "tu_lrz_clear_depth_image"

\* the call has a range with the depth or color aspect
HasDepthRange == \E i \in 1..Len(op.arg.ranges) : op.arg.ranges[i]

\* the first such range
FirstRange ==
    CHOOSE i \in 1..Len(op.arg.ranges) :
        op.arg.ranges[i] /\ \A j \in 1..(i - 1) : ~op.arg.ranges[j]

\* the call clears LRZ: there is such a range, the image has an LRZ buffer
\* and the device tracks the direction
ClearImageActs ==
    /\ ClearImageCall
    /\ HasDepthRange
    /\ op.arg.image.lrz_height # 0
    /\ device.has_lrz_dir_tracking

\* the image has a fast-clear buffer and the clear depth is 0.0 or 1.0
ClearImageFastClear ==
    op.arg.image.lrz_fc_size # 0 /\ op.arg.depth \in {"0.0", "1.0"}

\* C31: tu_lrz_clear_depth_image writes nothing when there is no range, the
\* image has no LRZ buffer, the device has no direction tracking or no range
\* has the depth or color aspect.  Otherwise it writes the buffer base, the
\* depth view of the first such range, a control word with enable,
\* disable_on_wrong_dir and fc_enable exactly when the image has a
\* fast-clear buffer and the clear depth is 0.0 or 1.0, LRZ_CLEAR and
\* LRZ_FLUSH, and then a full-value clear exactly when fc_enable is not set.
C31_ClearDepthImage ==
    ClearImageCall =>
        IF ~ClearImageActs THEN cs = <<>>
        ELSE /\ IsBufferBase(1, op.arg.image)
             /\ IsRegWrite(2, "GRAS_LRZ_DEPTH_VIEW", RangeDepthView(FirstRange))
             /\ IsRegWrite(3, "GRAS_LRZ_CNTL",
                           [ZeroCntl EXCEPT
                              !.enable = TRUE,
                              !.fc_enable = ClearImageFastClear,
                              !.disable_on_wrong_dir = TRUE])
             /\ IsEvent(4, "LRZ_CLEAR")
             /\ IsEvent(5, "LRZ_FLUSH")
             /\ IF ClearImageFastClear THEN Len(cs) = 5
                ELSE /\ Len(cs) = 6
                     /\ cs[6].cmd = "tu6_clear_lrz"
                     /\ cs[6].image = op.arg.image
                     /\ cs[6].value = op.arg.depth

\* C31 witness: a clear to 1.0 of an image with a fast-clear buffer whose
\* second range is the first with the depth aspect.
C31_Witness ==
    /\ ClearImageActs
    /\ op.arg.ranges = <<FALSE, TRUE>>
    /\ ClearImageFastClear
    /\ Len(cs) = 5

\* C31 witness: a clear to 0.5 is followed by the full-value clear.
C31_WitnessFullClear ==
    /\ ClearImageActs
    /\ op.arg.image.lrz_fc_size # 0
    /\ op.arg.depth = "0.5"
    /\ FullValueClear

\* C31 witness: an image without a fast-clear buffer cleared to 0.0.
C31_WitnessNoFc ==
    /\ ClearImageActs
    /\ op.arg.image.lrz_fc_size = 0
    /\ op.arg.depth = "0.0"
    /\ FullValueClear

\* C31 witness: no range with the depth aspect, and nothing is written.
C31_WitnessNoRange ==
    /\ ClearImageCall
    /\ op.arg.ranges = <<FALSE, FALSE>>
    /\ op.arg.image.lrz_height # 0
    /\ device.has_lrz_dir_tracking
    /\ cs = <<>>

\* C31 witness: no direction tracking, and nothing is written.
C31_WitnessCpu ==
    /\ ClearImageCall
    /\ HasDepthRange
    /\ op.arg.image.lrz_height # 0
    /\ ~device.has_lrz_dir_tracking
    /\ cs = <<>>

-----------------------------------------------------------------------------
\* the operations that may change the tracker
MutatingOps == BeginOps \cup {"tu6_emit_lrz", "tu_lrz_disable_during_renderpass"}

\* C32: tu_lrz_tiling_begin, tu_lrz_tiling_end, tu_lrz_sysmem_begin,
\* tu_lrz_sysmem_end, tu_disable_lrz and tu_lrz_clear_depth_image leave
\* every field of the tracker as they found it; an operation that leaves the
\* tracker changed is a begin, a draw or tu_lrz_disable_during_renderpass.
C32_EmittersReadOnly ==
    /\ op.name \in LifecycleOps =>
          /\ lrz.valid = pre.valid
          /\ lrz.prev_direction = pre.prev_direction
          /\ lrz.fast_clear = pre.fast_clear
          /\ lrz.gpu_dir_tracking = pre.gpu_dir_tracking
          /\ lrz.reuse_previous_state = pre.reuse_previous_state
          /\ lrz.image_view = pre.image_view
          /\ lrz.depth_clear_value = pre.depth_clear_value
          /\ lrz.enabled = pre.enabled
    /\ (op.name # "init" /\ lrz # pre) => op.name \in MutatingOps

\* C32 witness: tile-pass begin wrote commands for a valid tracker with a
\* direction recorded and left it as it was.
C32_Witness ==
    /\ op.name = "tu_lrz_tiling_begin"
    /\ cs # <<>>
    /\ lrz.valid
    /\ lrz.prev_direction # "TU_LRZ_UNKNOWN"
    /\ lrz.enabled
    /\ lrz = pre

\* C32 witness: sysmem begin disabled LRZ on the device and left the tracker
\* valid.
C32_WitnessSysmem ==
    /\ op.name = "tu_lrz_sysmem_begin"
    /\ device.has_lrz_dir_tracking
    /\ EventWrites("LRZ_CLEAR") # {}
    /\ lrz.valid
    /\ lrz = pre

\* C32 witness: the out-of-pass clear after a pass left the tracker of the
\* pass alone.
C32_WitnessClear ==
    /\ ClearImageActs
    /\ lrz.valid
    /\ lrz.image_view # NULL
    /\ lrz = pre

\* C32 witness: the mid-pass disable changed the tracker.
C32_WitnessMutation ==
    /\ op.name = "tu_lrz_disable_during_renderpass"
    /\ pre.valid
    /\ ~lrz.valid

-----------------------------------------------------------------------------
\* the tracker has one of the flags that make the emitters read image_view
NeedsView(l) ==
    l.valid \/ l.fast_clear \/ l.gpu_dir_tracking \/ l.reuse_previous_state

\* C33: in a pass begun by tu_lrz_begin_renderpass or
\* tu_lrz_begin_resumed_renderpass, after any draws and mid-pass disables, a
\* tracker with valid, fast_clear, gpu_dir_tracking or reuse_previous_state
\* set has an image_view; so tu_lrz_tiling_end, which reads image_view when
\* fast_clear or gpu_dir_tracking is set, and tu_lrz_tiling_begin, which
\* wrote commands, found one.
C33_AttachmentPresent ==
    /\ attachments => (NeedsView(lrz) => lrz.image_view # NULL)
    /\ op.name = "tu_lrz_tiling_end" =>
          (pre.fast_clear \/ pre.gpu_dir_tracking => pre.image_view # NULL)
    /\ op.name = "tu_lrz_tiling_begin" =>
          (cs # <<>> \/ NeedsView(pre) => pre.image_view # NULL)

\* C33 witness: a draw of a primary pass invalidated the tracker, which
\* keeps direction tracking and its image_view.
C33_Witness ==
    /\ attachments
    /\ IsDraw
    /\ pre.valid
    /\ ~lrz.valid
    /\ lrz.gpu_dir_tracking
    /\ lrz.image_view # NULL

\* C33 witness: tile-pass end read the image_view of a tracker that a
\* mid-pass disable or a draw had invalidated.
C33_WitnessTileEnd ==
    /\ op.name = "tu_lrz_tiling_end"
    /\ ~pre.valid
    /\ pre.fast_clear \/ pre.gpu_dir_tracking
    /\ IsBufferBase(1, pre.image_view.image)

\* C33 witness: a resumed pass reuses the previous state with an image_view.
C33_WitnessResumed ==
    /\ op.name = "tu_lrz_begin_resumed_renderpass"
    /\ lrz.reuse_previous_state
    /\ lrz.image_view # NULL

\* C33 witness: a primary pass has an image_view and none of the flags.
C33_WitnessViewOnly ==
    /\ attachments
    /\ pass
    /\ ~NeedsView(lrz)
    /\ lrz.image_view # NULL

\* C33 witness: in a secondary command buffer the tracker is valid without
\* an image_view, which is why the invariant is one of primary passes.
C33_WitnessSecondary ==
    /\ ~attachments
    /\ lrz.valid
    /\ lrz.image_view = NULL

====
